---------------------------- MODULE Spec2Model ----------------------------
(***************************************************************************)
(* A model of the path namespace of the build-graph engine                 *)
(* (android/paths.go) and of the android_app install-path logic.           *)
(*                                                                         *)
(* A string is a sequence of symbols.  A symbol is one of the characters   *)
(* "/", ".", "$", "*" or a word: a non-empty run of ordinary letters       *)
(* ("a", "o", "gen", ".intermediates", ...).  No word is a prefix of       *)
(* another word that can follow it in the model, so that prefix tests on   *)
(* symbol sequences agree with prefix tests on the characters.             *)
(***************************************************************************)
EXTENDS Integers, Sequences, FiniteSets, TLC

VARIABLES
    ctx,      \* the PathContext of the running evaluation (kind, Config(), Fs(), module)
    rep,      \* what the context has been told: errors, dependencies, panic
    call,     \* the last operation applied: its name, arguments and result
    outputs   \* module output paths allocated so far, with the variant that owns each

vars == <<ctx, rep, call, outputs>>

-----------------------------------------------------------------------------
(* Bounds                                                                  *)

\* longest component string (in symbols) that an action draws
MaxLen == 3
\* longest list handed to FirstUniquePaths / LastUniquePaths
MaxList == 4
\* most module output paths recorded in outputs
MaxOutputs == 2

\* the most apex bundles of a build description
MaxModules == 3

\* the most boot jars configured
MaxBootJars == 3

-----------------------------------------------------------------------------
(* Strings                                                                 *)

Slash == "/"
Dot == "."
Dollar == "$"
Star == "*"

Empty == << >>

\* v := e followed by the statements F that use v: e is evaluated once
Let(v, F(_)) == F(v)

\* all sequences over S of length at most n
RECURSIVE SeqsUpTo(_, _)
SeqsUpTo(S, n) ==
    IF n = 0 THEN {Empty}
    ELSE LET shorter == SeqsUpTo(S, n - 1)
         IN  shorter \cup {Append(s, x) : s \in shorter, x \in S}

\* strings.Contains(s, c) for a one-character c
Contains(s, c) == \E i \in 1..Len(s) : s[i] = c

\* strings.HasPrefix(s, p)
HasPrefix(s, p) == Len(p) <= Len(s) /\ SubSeq(s, 1, Len(p)) = p

\* the elements of s between the separators (strings.Split(s, "/"))
RECURSIVE SplitFrom(_, _, _)
SplitFrom(s, i, cur) ==
    IF i > Len(s) THEN <<cur>>
    ELSE IF s[i] = Slash THEN <<cur>> \o SplitFrom(s, i + 1, Empty)
    ELSE SplitFrom(s, i + 1, Append(cur, s[i]))

Split(s) == SplitFrom(s, 1, Empty)

\* strings.Join(elems, "/")
RECURSIVE JoinSep(_)
JoinSep(elems) ==
    IF Len(elems) = 0 THEN Empty
    ELSE IF Len(elems) = 1 THEN elems[1]
    ELSE elems[1] \o <<Slash>> \o JoinSep(Tail(elems))

DotDot == <<Dot, Dot>>

\* filepath.Clean: the loop over the elements of the path.  out holds the
\* elements written so far; a ".." removes the last one unless there is
\* none left to remove, in which case a relative path keeps the "..".
RECURSIVE CleanElems(_, _, _)
CleanElems(elems, rooted, out) ==
    IF Len(elems) = 0 THEN out
    ELSE LET e == Head(elems)
             rest == Tail(elems)
         IN  IF e = Empty \/ e = <<Dot>> THEN CleanElems(rest, rooted, out)
             ELSE IF e = DotDot
                  THEN IF Len(out) > 0 /\ out[Len(out)] # DotDot
                       THEN CleanElems(rest, rooted, SubSeq(out, 1, Len(out) - 1))
                       ELSE IF rooted THEN CleanElems(rest, rooted, out)
                       ELSE CleanElems(rest, rooted, Append(out, DotDot))
             ELSE CleanElems(rest, rooted, Append(out, e))

Clean(s) ==
    IF s = Empty THEN <<Dot>>
    ELSE Let(CleanElems(Split(s), s[1] = Slash, Empty), LAMBDA out :
             IF s[1] = Slash THEN <<Slash>> \o JoinSep(out)
             ELSE IF out = Empty THEN <<Dot>>
             ELSE JoinSep(out))

\* the non-empty elements of a list of strings
RECURSIVE NonEmpty(_)
NonEmpty(elems) ==
    IF Len(elems) = 0 THEN Empty
    ELSE IF Head(elems) = Empty THEN NonEmpty(Tail(elems))
    ELSE <<Head(elems)>> \o NonEmpty(Tail(elems))

\* filepath.Join
Join(elems) ==
    Let(NonEmpty(elems), LAMBDA ne :
        IF Len(ne) = 0 THEN Empty ELSE Clean(JoinSep(ne)))

\* filepath.IsAbs
IsAbs(s) == HasPrefix(s, <<Slash>>)

\* pathtools.IsGlob
IsGlob(s) == Contains(s, Star)


\* filepath.Ext: the suffix of the last element that starts at its final dot
RECURSIVE ExtFrom(_, _)
ExtFrom(s, i) ==
    IF i < 1 \/ s[i] = Slash THEN Empty
    ELSE IF s[i] = Dot THEN SubSeq(s, i, Len(s))
    ELSE ExtFrom(s, i - 1)

Ext(s) == ExtFrom(s, Len(s))

\* pathtools.ReplaceExtension
ReplaceExtension(s, ext) ==
    SubSeq(s, 1, Len(s) - Len(Ext(s))) \o <<Dot>> \o ext

\* a "*" of a glob pattern matches any run of symbols other than "/"
RECURSIVE GlobMatch(_, _)
GlobMatch(pat, s) ==
    IF pat = Empty THEN s = Empty
    ELSE IF Head(pat) = Star
         THEN \/ GlobMatch(Tail(pat), s)
              \/ s # Empty /\ Head(s) # Slash /\ GlobMatch(pat, Tail(s))
    ELSE s # Empty /\ Head(s) = Head(pat) /\ GlobMatch(Tail(pat), Tail(s))

-----------------------------------------------------------------------------
(* Validation                                                              *)

NoErr == "none"

\* validateSafePath without the test for a component that is exactly ".."
escapesComponentNoDotDot(cleaned) ==
    \/ HasPrefix(cleaned, <<Dot, Dot, Slash>>)
    \/ HasPrefix(cleaned, <<Slash>>)

\* the test of validateSafePath on one cleaned component
escapesComponent(cleaned) ==
    \/ cleaned = DotDot
    \/ HasPrefix(cleaned, <<Dot, Dot, Slash>>)
    \/ HasPrefix(cleaned, <<Slash>>)

validateSafePath(pathComponents) ==
    IF \E i \in 1..Len(pathComponents) : escapesComponent(Clean(pathComponents[i]))
    THEN [path |-> Empty, err |-> "outside"]
    ELSE [path |-> Join(pathComponents), err |-> NoErr]

validatePath(pathComponents) ==
    IF \E i \in 1..Len(pathComponents) : Contains(pathComponents[i], Dollar)
    THEN [path |-> Empty, err |-> "dollar"]
    ELSE validateSafePath(pathComponents)

-----------------------------------------------------------------------------
(* Paths                                                                   *)

\* basePath{path, config, rel} together with the Go type that embeds it
MkPath(kind, path, rel) == [kind |-> kind, path |-> path, rel |-> rel]

NoPath == [kind |-> "none", path |-> Empty, rel |-> Empty]

SourceKinds == {"SourcePath", "ModuleSrcPath"}
OutputKinds == {"OutputPath", "ModuleOutPath", "ModuleGenPath", "ModuleObjPath", "ModuleResPath"}

\* basePath.Rel
Rel(p) == IF p.rel # Empty THEN p.rel ELSE p.path

\* SourcePath.String, OutputPath.String
String(config, p) ==
    IF p.kind \in SourceKinds THEN Join(<<config.srcDir, p.path>>)
    ELSE IF p.kind \in OutputKinds THEN Join(<<config.buildDir, p.path>>)
    ELSE p.path

\* basePath.withRel
withRel(p, rel) == [p EXCEPT !.path = Join(<<p.path, rel>>), !.rel = rel]

\* OptionalPath
Absent == [valid |-> FALSE, path |-> NoPath]
OptionalPathForPath(p) == [valid |-> TRUE, path |-> p]

-----------------------------------------------------------------------------
(* The context                                                             *)

\* ModuleContext and SingletonContext can glob; testPathContext cannot
GlobKinds == {"module", "singleton"}

\* the report of a call that has told the context nothing yet
NoReport == [errs |-> << >>, panicked |-> FALSE,
             globs |-> {}, ninjaFileDeps |-> {}, missingDeps |-> {}]

\* ctx.ModuleErrorf, ctx.Errorf: the error is added to those of the context
ModuleErrorf(r, what) == [r EXCEPT !.errs = Append(@, [by |-> "ModuleErrorf", what |-> what])]
Errorf(r, what) == [r EXCEPT !.errs = Append(@, [by |-> "Errorf", what |-> what])]

\* ctx.Failed
Failed(r) == r.errs # << >>

\* reportPathErrorf without the fall back to Errorf
reportPathErrorfModuleOnly(c, r, what) ==
    IF r.panicked THEN r
    ELSE IF c.kind = "module" THEN ModuleErrorf(r, what)
    ELSE [r EXCEPT !.panicked = TRUE]

\* reportPathErrorf: ModuleErrorf, else Errorf, else panic.  After a panic
\* nothing more of the call runs.
reportPathErrorf(c, r, what) ==
    IF r.panicked THEN r
    ELSE IF c.kind = "module" THEN ModuleErrorf(r, what)
    ELSE IF c.kind = "singleton" THEN Errorf(r, what)
    ELSE [r EXCEPT !.panicked = TRUE]

\* reportPathError
reportPathError(c, r, err) == IF err = NoErr THEN r ELSE reportPathErrorf(c, r, err)

\* ctx.GlobWithDeps(pattern, nil): the pattern is registered with the context
GlobWithDeps(r, pattern) ==
    IF r.panicked THEN r ELSE [r EXCEPT !.globs = @ \cup {pattern}]

\* ctx.AddNinjaFileDeps(deps...) with the deps pathtools.Glob computed for pattern
AddNinjaFileDeps(r, pattern) ==
    IF r.panicked THEN r ELSE [r EXCEPT !.ninjaFileDeps = @ \cup {pattern}]

\* modCtx.AddMissingDependencies
AddMissingDependencies(r, name) ==
    IF r.panicked THEN r ELSE [r EXCEPT !.missingDeps = @ \cup {name}]

\* ctx.Fs().Exists
Exists(c, name) == name \in c.fs

-----------------------------------------------------------------------------
(* Source paths                                                            *)

\* safePathForSource
safePathForSource(c, pathComponents) ==
    Let(validateSafePath(pathComponents), LAMBDA v :
    Let(MkPath("SourcePath", v.path, Empty), LAMBDA ret :
        IF v.err # NoErr THEN [path |-> ret, err |-> v.err]
        ELSE IF HasPrefix(String(c.config, ret), c.config.buildDir)
             THEN [path |-> ret, err |-> "inOutput"]
        ELSE [path |-> ret, err |-> NoErr]))

\* pathForSource without the test for the build directory
pathForSourceNoOutputTest(c, pathComponents) ==
    Let(validatePath(pathComponents), LAMBDA v :
        [path |-> MkPath("SourcePath", v.path, Empty), err |-> v.err])

\* pathForSource
pathForSource(c, pathComponents) ==
    Let(validatePath(pathComponents), LAMBDA v :
    Let(MkPath("SourcePath", v.path, Empty), LAMBDA ret :
        IF v.err # NoErr THEN [path |-> ret, err |-> v.err]
        ELSE IF HasPrefix(String(c.config, ret), c.config.buildDir)
             THEN [path |-> ret, err |-> "inOutput"]
        ELSE [path |-> ret, err |-> NoErr]))

\* existsWithDependencies that registers nothing when the context cannot glob
existsWithDependenciesGlobOnly(c, r, path, io) ==
    Let(String(c.config, path), LAMBDA pattern :
    Let(IF c.kind \in GlobKinds THEN GlobWithDeps(r, pattern) ELSE r, LAMBDA r1 :
        IF io = "err" THEN [exists |-> FALSE, err |-> "glob", rep |-> r1]
        ELSE [exists |-> \E f \in c.fs : GlobMatch(pattern, f), err |-> NoErr, rep |-> r1]))

\* existsWithDependencies.  io is whether the directory listing succeeds.
existsWithDependencies(c, r, path, io) ==
    Let(String(c.config, path), LAMBDA pattern :
    Let(IF c.kind \in GlobKinds THEN GlobWithDeps(r, pattern)
        ELSE AddNinjaFileDeps(r, pattern), LAMBDA r1 :
        IF io = "err" THEN [exists |-> FALSE, err |-> "glob", rep |-> r1]
        ELSE [exists |-> \E f \in c.fs : GlobMatch(pattern, f), err |-> NoErr, rep |-> r1]))

\* what a call hands back: the value, unless the call has panicked
Return(value, r) == [ret |-> IF r.panicked THEN NoPath ELSE value, rep |-> r]

\* PathForSource
PathForSource(c, pathComponents, io) ==
    Let(pathForSource(c, pathComponents), LAMBDA ps :
    Let(String(c.config, ps.path), LAMBDA name :
    Let(reportPathError(c, NoReport, ps.err), LAMBDA r1 :
    Let(IF IsGlob(name) THEN reportPathErrorf(c, r1, "glob") ELSE r1, LAMBDA r2 :
        IF c.kind = "module" /\ c.config.allowMissing
        THEN Let(existsWithDependencies(c, r2, ps.path, io), LAMBDA e :
             Let(reportPathError(c, e.rep, e.err), LAMBDA r3 :
                 Return(ps.path, IF ~e.exists THEN AddMissingDependencies(r3, name)
                                 ELSE r3)))
        ELSE IF io = "err" THEN Return(ps.path, reportPathErrorf(c, r2, "fs"))
        ELSE IF ~Exists(c, name) THEN Return(ps.path, reportPathErrorf(c, r2, "missing"))
        ELSE Return(ps.path, r2)))))

\* ExistentPathForSource
ExistentPathForSource(c, r, pathComponents, io) ==
    Let(pathForSource(c, pathComponents), LAMBDA ps :
        IF ps.err # NoErr
        THEN [ret |-> Absent, rep |-> reportPathError(c, r, ps.err)]
        ELSE IF IsGlob(String(c.config, ps.path))
        THEN [ret |-> Absent, rep |-> reportPathErrorf(c, r, "glob")]
        ELSE Let(existsWithDependencies(c, r, ps.path, io), LAMBDA e :
                 IF e.err # NoErr
                 THEN [ret |-> Absent, rep |-> reportPathError(c, e.rep, e.err)]
                 ELSE IF ~e.exists THEN [ret |-> Absent, rep |-> e.rep]
                 ELSE [ret |-> OptionalPathForPath(ps.path), rep |-> e.rep]))

\* ExistentPathsForSources: the loop from element i on, ret holding the
\* paths appended so far
RECURSIVE ExistentPathsForSourcesFrom(_, _, _, _, _, _)
ExistentPathsForSourcesFrom(c, r, paths, io, i, ret) ==
    IF i > Len(paths) \/ r.panicked THEN [ret |-> IF r.panicked THEN << >> ELSE ret, rep |-> r]
    ELSE Let(ExistentPathForSource(c, r, <<paths[i]>>, io), LAMBDA p :
             ExistentPathsForSourcesFrom(c, p.rep, paths, io, i + 1,
                 IF p.ret.valid THEN Append(ret, p.ret.path) ELSE ret))

ExistentPathsForSources(c, paths, io) ==
    ExistentPathsForSourcesFrom(c, NoReport, paths, io, 1, << >>)

\* SourcePath.Join
SourcePathJoin(c, p, paths) ==
    Let(validatePath(paths), LAMBDA v :
        Return(withRel(p, v.path), reportPathError(c, NoReport, v.err)))

\* PathForModuleSrc
PathForModuleSrc(c, paths, io) ==
    Let(validatePath(paths), LAMBDA v :
    Let(reportPathError(c, NoReport, v.err), LAMBDA r1 :
    Let(pathForSource(c, <<c.moduleDir, v.path>>), LAMBDA ps :
    Let(String(c.config, ps.path), LAMBDA name :
    Let(reportPathError(c, r1, ps.err), LAMBDA r2 :
    Let(IF IsGlob(name) THEN reportPathErrorf(c, r2, "glob") ELSE r2, LAMBDA r3 :
    Let([ps.path EXCEPT !.kind = "ModuleSrcPath", !.rel = v.path], LAMBDA path :
        IF io = "err" THEN Return(path, reportPathErrorf(c, r3, "fs"))
        ELSE IF ~Exists(c, name) THEN Return(path, reportPathErrorf(c, r3, "missing"))
        ELSE Return(path, r3))))))))

-----------------------------------------------------------------------------
(* Output paths                                                            *)

\* PathForOutput
PathForOutput(c, r, pathComponents) ==
    Let(validatePath(pathComponents), LAMBDA v :
        Return(MkPath("OutputPath", v.path, Empty), reportPathError(c, r, v.err)))

\* OutputPath.Join
OutputPathJoin(c, p, paths) ==
    Let(validatePath(paths), LAMBDA v :
        Return(withRel(p, v.path), reportPathError(c, NoReport, v.err)))

\* the literal path elements of the module output tree
Intermediates == <<".intermediates">>
Gen == <<"gen">>
Obj == <<"obj">>
Res == <<"res">>

\* pathForModule
pathForModule(c, r) ==
    PathForOutput(c, r, <<Intermediates, c.moduleDir, c.moduleName, c.moduleSubDir>>)

\* PathForModuleOut
PathForModuleOut(c, r, paths) ==
    Let(validatePath(paths), LAMBDA v :
    Let(pathForModule(c, reportPathError(c, r, v.err)), LAMBDA m :
        Return([withRel(m.ret, v.path) EXCEPT !.kind = "ModuleOutPath"], m.rep)))

\* PathForModuleGen
PathForModuleGen(c, r, paths) ==
    Let(validatePath(paths), LAMBDA v :
    Let(pathForModule(c, reportPathError(c, r, v.err)), LAMBDA m :
        Return([withRel(withRel(m.ret, Gen), v.path) EXCEPT !.kind = "ModuleGenPath"],
               m.rep)))

\* PathForModuleObj
PathForModuleObj(c, r, pathComponents) ==
    Let(validatePath(pathComponents), LAMBDA v :
    Let(PathForModuleOut(c, reportPathError(c, r, v.err), <<Obj, v.path>>), LAMBDA o :
        Return([o.ret EXCEPT !.kind = "ModuleObjPath"], o.rep)))

\* PathForModuleRes
PathForModuleRes(c, r, pathComponents) ==
    Let(validatePath(pathComponents), LAMBDA v :
    Let(PathForModuleOut(c, reportPathError(c, r, v.err), <<Res, v.path>>), LAMBDA o :
        Return([o.ret EXCEPT !.kind = "ModuleResPath"], o.rep)))

\* ModuleSrcPath.genPathWithExt, ModuleGenPath.genPathWithExt
genPathWithExt(c, r, p, subdir, ext) ==
    PathForModuleGen(c, r, <<subdir, ReplaceExtension(p.path, ext)>>)

\* ModuleSrcPath.objPathWithExt, ModuleGenPath.objPathWithExt
objPathWithExt(c, r, p, subdir, ext) ==
    PathForModuleObj(c, r, <<subdir, ReplaceExtension(p.path, ext)>>)

\* ModuleSrcPath.resPathWithName
resPathWithName(c, r, p, name) ==
    PathForModuleRes(c, r, <<p.path, name>>)

\* GenPathWithExt that falls back to the gen directory without a report
GenPathWithExtSilent(c, r, subdir, p, ext) ==
    IF p.kind \in {"ModuleSrcPath", "ModuleGenPath"} THEN genPathWithExt(c, r, p, subdir, ext)
    ELSE PathForModuleGen(c, r, << >>)

\* GenPathWithExt
GenPathWithExt(c, r, subdir, p, ext) ==
    IF p.kind \in {"ModuleSrcPath", "ModuleGenPath"} THEN genPathWithExt(c, r, p, subdir, ext)
    ELSE PathForModuleGen(c, reportPathErrorf(c, r, "unsupported"), << >>)

\* ObjPathWithExt
ObjPathWithExt(c, r, subdir, p, ext) ==
    IF p.kind \in {"ModuleSrcPath", "ModuleGenPath"} THEN objPathWithExt(c, r, p, subdir, ext)
    ELSE PathForModuleObj(c, reportPathErrorf(c, r, "unsupported"), << >>)

\* ResPathWithName
ResPathWithName(c, r, p, name) ==
    IF p.kind = "ModuleSrcPath" THEN resPathWithName(c, r, p, name)
    ELSE PathForModuleRes(c, reportPathErrorf(c, r, "unsupported"), << >>)

-----------------------------------------------------------------------------
(* The path constructors as a state machine: an evaluation builds one path *)
(* from component strings and may then join further components to it.      *)

Alphabet == {"a", "o", Slash, Dot, Dollar, Star}

Strings == SeqsUpTo(Alphabet, MaxLen)

\* one component, or two components that together stay below the bound
ComponentLists ==
    {<<s>> : s \in Strings}
    \cup UNION {{<<s, t>> : t \in SeqsUpTo(Alphabet, MaxLen - 1 - Len(s))} :
                   s \in SeqsUpTo(Alphabet, MaxLen - 1)}

\* the source tree of the model: the files that exist
SourceFiles == { <<"a">>, <<"a", Slash, "a">>, <<"a", Slash, "o">>, <<"o", "a">>,
                 <<"a", Dot, "a">>, <<"o", Slash, "a">> }

\* Config(): the source directory is the working directory, the build
\* directory a directory below it
DefaultConfig == [srcDir |-> <<Dot>>, buildDir |-> <<"o">>, allowMissing |-> FALSE,
                  deviceName |-> <<"dev">>]

\* the module of a ModuleContext
NoModule == [moduleDir |-> Empty, moduleName |-> Empty, moduleSubDir |-> Empty]

MkCtx(kind, allowMissing, m) ==
    [kind |-> kind, config |-> [DefaultConfig EXCEPT !.allowMissing = allowMissing],
     fs |-> SourceFiles,
     moduleDir |-> m.moduleDir, moduleName |-> m.moduleName, moduleSubDir |-> m.moduleSubDir]

\* a module in the source tree and a module declared below the build directory
PathModules == {[moduleDir |-> d, moduleName |-> <<"m">>, moduleSubDir |-> <<"v">>] :
                   d \in {<<"a">>, <<"o">>}}

PathContexts ==
    {MkCtx("module", am, m) : am \in BOOLEAN, m \in PathModules}
    \cup {MkCtx("singleton", FALSE, NoModule), MkCtx("test", FALSE, NoModule)}

Idle == [op |-> "idle", args |-> << >>, io |-> "ok", recv |-> NoPath, ret |-> NoPath, err |-> NoErr]

MkCall(op, args, io, recv, ret, err) ==
    [op |-> op, args |-> args, io |-> io, recv |-> recv, ret |-> ret, err |-> err]

InitPaths ==
    /\ ctx \in PathContexts
    /\ rep = NoReport
    /\ call = Idle
    /\ outputs = {}


\* the symbols of all components of a list
RECURSIVE TotalLen(_)
TotalLen(l) == IF Len(l) = 0 THEN 0 ELSE Len(Head(l)) + TotalLen(Tail(l))

IoOutcomes == {"ok", "err"}

StartOfEvaluation == call.op = "idle" /\ ~rep.panicked

DoValidateSafePath ==
    /\ StartOfEvaluation
    /\ \E comps \in ComponentLists :
          \E v \in {validateSafePath(comps)} :
              call' = MkCall("validateSafePath", comps, "ok", NoPath, MkPath("string", v.path, Empty), v.err)
    /\ UNCHANGED <<ctx, rep, outputs>>

DoValidatePath ==
    /\ StartOfEvaluation
    /\ \E comps \in ComponentLists :
          \E v \in {validatePath(comps)} :
              call' = MkCall("validatePath", comps, "ok", NoPath, MkPath("string", v.path, Empty), v.err)
    /\ UNCHANGED <<ctx, rep, outputs>>

DoSafePathForSource ==
    /\ StartOfEvaluation
    /\ \E comps \in ComponentLists :
          \E v \in {safePathForSource(ctx, comps)} :
              call' = MkCall("safePathForSource", comps, "ok", NoPath, v.path, v.err)
    /\ UNCHANGED <<ctx, rep, outputs>>

DoPathForSourceUnreported ==
    /\ StartOfEvaluation
    /\ \E comps \in ComponentLists :
          \E v \in {pathForSource(ctx, comps)} :
              call' = MkCall("pathForSource", comps, "ok", NoPath, v.path, v.err)
    /\ UNCHANGED <<ctx, rep, outputs>>

DoPathForSource ==
    /\ StartOfEvaluation
    /\ \E comps \in ComponentLists, io \in IoOutcomes :
          \E v \in {PathForSource(ctx, comps, io)} :
              /\ call' = MkCall("PathForSource", comps, io, NoPath, v.ret, NoErr)
              /\ rep' = v.rep
    /\ UNCHANGED <<ctx, outputs>>

DoExistentPathForSource ==
    /\ StartOfEvaluation
    /\ \E comps \in ComponentLists, io \in IoOutcomes :
          \E v \in {ExistentPathForSource(ctx, NoReport, comps, io)} :
              /\ call' = MkCall("ExistentPathForSource", comps, io, NoPath, v.ret, NoErr)
              /\ rep' = v.rep
    /\ UNCHANGED <<ctx, outputs>>

DoExistentPathsForSources ==
    /\ StartOfEvaluation
    /\ \E paths \in ComponentLists, io \in IoOutcomes :
          \E v \in {ExistentPathsForSources(ctx, paths, io)} :
              /\ call' = MkCall("ExistentPathsForSources", paths, io, NoPath, v.ret, NoErr)
              /\ rep' = v.rep
    /\ UNCHANGED <<ctx, outputs>>

DoPathForModuleSrc ==
    /\ StartOfEvaluation
    /\ ctx.kind = "module"
    /\ \E comps \in ComponentLists, io \in IoOutcomes :
          \E v \in {PathForModuleSrc(ctx, comps, io)} :
              /\ call' = MkCall("PathForModuleSrc", comps, io, NoPath, v.ret, NoErr)
              /\ rep' = v.rep
    /\ UNCHANGED <<ctx, outputs>>

DoPathForOutput ==
    /\ StartOfEvaluation
    /\ \E comps \in ComponentLists :
          \E v \in {PathForOutput(ctx, NoReport, comps)} :
              /\ call' = MkCall("PathForOutput", comps, "ok", NoPath, v.ret, NoErr)
              /\ rep' = v.rep
    /\ UNCHANGED <<ctx, outputs>>

\* a path built without error can be the receiver of Join
Joinable(kinds) ==
    /\ call.op \in {"PathForSource", "PathForModuleSrc", "PathForOutput"}
    /\ call.ret.kind \in kinds
    /\ ~rep.panicked
    /\ rep.errs = << >>

DoSourcePathJoin ==
    /\ Joinable(SourceKinds)
    /\ \E comps \in ComponentLists :
          /\ Len(call.ret.path) + TotalLen(comps) <= MaxLen
          /\ \E v \in {SourcePathJoin(ctx, call.ret, comps)} :
                 /\ call' = MkCall("SourcePath.Join", comps, "ok", call.ret, v.ret, NoErr)
                 /\ rep' = v.rep
    /\ UNCHANGED <<ctx, outputs>>

DoOutputPathJoin ==
    /\ Joinable(OutputKinds)
    /\ \E comps \in ComponentLists :
          /\ Len(call.ret.path) + TotalLen(comps) <= MaxLen
          /\ \E v \in {OutputPathJoin(ctx, call.ret, comps)} :
                 /\ call' = MkCall("OutputPath.Join", comps, "ok", call.ret, v.ret, NoErr)
                 /\ rep' = v.rep
    /\ UNCHANGED <<ctx, outputs>>

NextPaths ==
    \/ DoValidateSafePath
    \/ DoValidatePath
    \/ DoSafePathForSource
    \/ DoPathForSourceUnreported
    \/ DoPathForSource
    \/ DoExistentPathForSource
    \/ DoExistentPathsForSources
    \/ DoPathForModuleSrc
    \/ DoPathForOutput
    \/ DoSourcePathJoin
    \/ DoOutputPathJoin

SpecPaths == InitPaths /\ [][NextPaths]_vars


-----------------------------------------------------------------------------
(* Properties of the path constructors                                     *)

\* the elements of a cleaned path, none for "."
Elems(cleaned) == IF cleaned = <<Dot>> THEN << >> ELSE NonEmpty(Split(cleaned))

\* s, once cleaned, is root or a location below root
Under(root, s) ==
    LET r == Elems(Clean(root))
        e == Elems(Clean(s))
    IN  /\ IsAbs(s) = IsAbs(root)
        /\ Len(r) <= Len(e)
        /\ SubSeq(e, 1, Len(r)) = r
        /\ \A i \in 1..Len(e) : e[i] # DotDot

\* the cleaned form of s is "..", starts with "../" or is absolute
EscapingForm(s) ==
    LET first == Split(Clean(s))[1]
    IN  first = DotDot \/ first = Empty

HasEscapingComponent(comps) == \E i \in 1..Len(comps) : EscapingForm(comps[i])
HasDollar(comps) == \E i \in 1..Len(comps) : Contains(comps[i], Dollar)

\* the location named by root and the components, joined as written
Location(root, comps) == Clean(JoinSep(<<root>> \o NonEmpty(comps)))

\* the call reported nothing and returned
Accepted == rep.errs = << >> /\ ~rep.panicked

HasReported(what) == \E i \in 1..Len(rep.errs) : rep.errs[i].what = what

\* the location reads as one in the build directory: its text starts with
\* the text of the build directory
ReadsAsOutput(c, loc) == HasPrefix(loc, c.config.buildDir)

\* the components are well formed for a source path: no "$", no escaping
\* component, not read as a location in the build directory, no glob character
WellFormedSource(c, comps) ==
    /\ ~HasDollar(comps)
    /\ ~HasEscapingComponent(comps)
    /\ ~ReadsAsOutput(c, Location(c.config.srcDir, comps))
    /\ ~IsGlob(Location(c.config.srcDir, comps))

\* the malformed inputs of each constructor: a "$" or an escaping component
\* for all of them; for the source constructors also a location in the build
\* directory, a glob character and a file system failure; for PathForSource
\* and PathForModuleSrc also a file that does not exist
Malformed ==
    LET bad == HasDollar(call.args) \/ HasEscapingComponent(call.args)
        loc == IF bad THEN Location(ctx.config.srcDir, << >>)
               ELSE IF call.op = "PathForModuleSrc"
               THEN Location(ctx.config.srcDir, <<ctx.moduleDir>> \o call.args)
               ELSE Location(ctx.config.srcDir, call.args)
        badSource == bad \/ ReadsAsOutput(ctx, loc) \/ IsGlob(loc) \/ call.io = "err"
    IN  CASE call.op \in {"PathForOutput", "SourcePath.Join", "OutputPath.Join"} -> bad
          [] call.op = "ExistentPathForSource" -> badSource
          [] call.op \in {"PathForSource", "PathForModuleSrc"} -> badSource \/ loc \notin ctx.fs
          [] OTHER -> FALSE

Constructors == {"PathForSource", "PathForModuleSrc", "PathForOutput",
                 "ExistentPathForSource", "SourcePath.Join", "OutputPath.Join"}

\* the call has recorded the malformed path on the context
Recorded == rep.errs # << >> \/ rep.missingDeps # {}

\* the call has handed back a value the caller can go on with
Usable ==
    IF call.op = "ExistentPathForSource" THEN call.ret \in {Absent} \cup {OptionalPathForPath(call.ret.path)}
    ELSE call.ret.kind \in SourceKinds \cup OutputKinds

C8_OutputIsNoSource ==
    LET inOut(comps) == Under(ctx.config.buildDir, Location(ctx.config.srcDir, comps))
    IN  /\ (call.op = "pathForSource" /\ inOut(call.args))
              => /\ call.err # NoErr
                 /\ validatePath(call.args).err = NoErr => call.err = "inOutput"
        /\ (call.op = "PathForSource" /\ inOut(call.args))
              => rep.panicked \/ HasReported("inOutput") \/ HasReported(validatePath(call.args).err)
        /\ (call.op = "PathForModuleSrc" /\ inOut(<<ctx.moduleDir>> \o call.args))
              => rep.panicked \/ HasReported("inOutput") \/ HasReported(validatePath(call.args).err)
        /\ (call.op = "ExistentPathForSource" /\ inOut(call.args))
              => /\ call.ret = Absent
                 /\ rep.panicked \/ HasReported("inOutput") \/ HasReported(validatePath(call.args).err)

\* an existing file below the build directory was asked for as a source and
\* came back absent
C8_Witness ==
    /\ call.op = "ExistentPathForSource"
    /\ call.args = << <<"o">>, <<"a">> >>
    /\ Location(ctx.config.srcDir, call.args) \in ctx.fs
    /\ call.ret = Absent
    /\ HasReported("inOutput")


-----------------------------------------------------------------------------
(* FirstUniquePaths and LastUniquePaths                                    *)
(* Indices are those of the Go code, which counts from 0; At and Put read  *)
(* and write the slice at such an index.                                   *)

At(list, i) == list[i + 1]
Put(list, i, v) == [list EXCEPT ![i + 1] = v]

\* the loop of FirstUniquePaths that does not copy the kept element down
RECURSIVE FirstUniquePathsLoopNoCopy(_, _, _)
FirstUniquePathsLoopNoCopy(list, i, k) ==
    IF i >= Len(list) THEN [backing |-> list, lo |-> 0, hi |-> k]
    ELSE IF \E j \in 0..(k - 1) : At(list, i) = At(list, j)
         THEN FirstUniquePathsLoopNoCopy(list, i + 1, k)
         ELSE FirstUniquePathsLoopNoCopy(list, i + 1, k + 1)

\* the outer loop of FirstUniquePaths from index i, with k elements kept
RECURSIVE FirstUniquePathsLoop(_, _, _)
FirstUniquePathsLoop(list, i, k) ==
    IF i >= Len(list) THEN [backing |-> list, lo |-> 0, hi |-> k]
    ELSE IF \E j \in 0..(k - 1) : At(list, i) = At(list, j)
         THEN FirstUniquePathsLoop(list, i + 1, k)
         ELSE FirstUniquePathsLoop(Put(list, k, At(list, i)), i + 1, k + 1)

\* FirstUniquePaths: the slice after the call and the bounds of list[:k]
FirstUniquePaths(list) == FirstUniquePathsLoop(list, 0, 0)

\* the inner loop of LastUniquePaths that does not move the kept elements up
RECURSIVE LastUniquePathsInnerNoMove(_, _, _, _, _)
LastUniquePathsInnerNoMove(list, i, j, skip, totalSkip) ==
    IF j < totalSkip THEN [list |-> list, skip |-> skip]
    ELSE IF At(list, i) = At(list, j)
         THEN LastUniquePathsInnerNoMove(list, i, j - 1, skip + 1, totalSkip)
         ELSE LastUniquePathsInnerNoMove(list, i, j - 1, skip, totalSkip)

\* the inner loop of LastUniquePaths from index j
RECURSIVE LastUniquePathsInner(_, _, _, _, _)
LastUniquePathsInner(list, i, j, skip, totalSkip) ==
    IF j < totalSkip THEN [list |-> list, skip |-> skip]
    ELSE IF At(list, i) = At(list, j)
         THEN LastUniquePathsInner(list, i, j - 1, skip + 1, totalSkip)
         ELSE LastUniquePathsInner(Put(list, j + skip, At(list, j)), i, j - 1, skip, totalSkip)

\* the outer loop of LastUniquePaths from index i
RECURSIVE LastUniquePathsLoop(_, _, _)
LastUniquePathsLoop(list, i, totalSkip) ==
    IF i < totalSkip THEN [backing |-> list, lo |-> totalSkip, hi |-> Len(list)]
    ELSE Let(LastUniquePathsInner(list, i, i - 1, 0, totalSkip), LAMBDA inner :
             LastUniquePathsLoop(inner.list, i - 1, totalSkip + inner.skip))

\* LastUniquePaths: the slice after the call and the bounds of list[totalSkip:]
LastUniquePaths(list) == LastUniquePathsLoop(list, Len(list) - 1, 0)

\* list[lo:hi]
Slice(r) == SubSeq(r.backing, r.lo + 1, r.hi)

\* the paths of the lists: equal path text under different Go types gives
\* paths that == tells apart
PathPool == { MkPath("SourcePath", <<"a">>, Empty),
              MkPath("OutputPath", <<"a">>, Empty),
              MkPath("SourcePath", <<"b">>, Empty) }

PathLists == SeqsUpTo(PathPool, MaxList)

NoCtx == MkCtx("none", FALSE, NoModule)

UniqueOps == {"FirstUniquePaths", "LastUniquePaths"}

ApplyUnique(op, list) ==
    IF op = "FirstUniquePaths" THEN FirstUniquePaths(list) ELSE LastUniquePaths(list)

InitUnique ==
    /\ ctx = NoCtx
    /\ rep = NoReport
    /\ call = Idle
    /\ outputs = {}

\* the function is applied to a list
DoUnique ==
    /\ call.op = "idle"
    /\ \E op \in UniqueOps, list \in PathLists :
          \E r \in {ApplyUnique(op, list)} :
              call' = [op |-> op, args |-> list, orig |-> list, again |-> FALSE,
                       ret |-> Slice(r), slice |-> r]
    /\ UNCHANGED <<ctx, rep, outputs>>

\* the function is applied to its own result
DoUniqueAgain ==
    /\ call.op \in UniqueOps
    /\ ~call.again
    /\ \E r \in {ApplyUnique(call.op, call.ret)} :
           call' = [op |-> call.op, args |-> call.ret, orig |-> call.orig, again |-> TRUE,
                    ret |-> Slice(r), slice |-> r]
    /\ UNCHANGED <<ctx, rep, outputs>>

NextUnique == DoUnique \/ DoUniqueAgain

SpecUnique == InitUnique /\ [][NextUnique]_vars

\* the index of the first and of the last occurrence of x in list
FirstIndex(list, x) == CHOOSE i \in 1..Len(list) : list[i] = x /\ \A j \in 1..(i - 1) : list[j] # x
LastIndex(list, x) == CHOOSE i \in 1..Len(list) : list[i] = x /\ \A j \in (i + 1)..Len(list) : list[j] # x

KeptIndex(op, list, x) ==
    IF op = "FirstUniquePaths" THEN FirstIndex(list, x) ELSE LastIndex(list, x)

\* C3: FirstUniquePaths and LastUniquePaths are idempotent, and any two kept
\* elements stand in the result in the order that their kept occurrences
\* (the first, respectively the last) have in the input.
C3_IdempotentOrdered ==
    call.op \in UniqueOps =>
        /\ call.again => call.ret = call.args
        /\ \A a, b \in 1..Len(call.ret) :
              a < b => /\ \E i \in 1..Len(call.args) : call.args[i] = call.ret[a]
                       /\ \E i \in 1..Len(call.args) : call.args[i] = call.ret[b]
                       /\ KeptIndex(call.op, call.args, call.ret[a])
                             < KeptIndex(call.op, call.args, call.ret[b])

\* LastUniquePaths was applied again to a result from which it had dropped
\* a duplicate that stood before a kept element
C3_Witness ==
    /\ call.op = "LastUniquePaths"
    /\ call.again
    /\ Len(call.orig) = 3
    /\ call.orig[2] = call.orig[3]
    /\ call.orig[1] # call.orig[3]
    /\ Len(call.ret) = 2

\* the elements of list whose occurrence at i is the kept one
RECURSIVE KeptFrom(_, _, _)
KeptFrom(op, list, i) ==
    IF i > Len(list) THEN << >>
    ELSE IF KeptIndex(op, list, list[i]) = i THEN <<list[i]>> \o KeptFrom(op, list, i + 1)
    ELSE KeptFrom(op, list, i + 1)

\* C4: FirstUniquePaths returns exactly the distinct elements of the input,
\* each once, in the order of their first occurrences, LastUniquePaths in the
\* order of their last occurrences; the result is a sub-slice of the input
\* slice: list[:k], respectively list[totalSkip:].
C4_ExactlyDistinct ==
    call.op \in UniqueOps =>
        /\ call.ret = KeptFrom(call.op, call.args, 1)
        /\ Len(call.slice.backing) = Len(call.args)
        /\ call.op = "FirstUniquePaths" => call.slice.lo = 0
        /\ call.op = "LastUniquePaths" => call.slice.hi = Len(call.args)
        /\ call.ret = SubSeq(call.slice.backing, call.slice.lo + 1, call.slice.hi)

\* FirstUniquePaths has moved a kept element down over a dropped duplicate
C4_Witness ==
    /\ call.op = "FirstUniquePaths"
    /\ ~call.again
    /\ Len(call.args) = 3
    /\ call.args[1] = call.args[2]
    /\ call.args[3] # call.args[1]
    /\ call.ret = <<call.args[1], call.args[3]>>


-----------------------------------------------------------------------------
(* Module output paths: the modules of one evaluation are visited one by   *)
(* one and allocate paths below .intermediates                             *)

\* the module variants of the evaluation: two variants of module a declared
\* in directory d, and two modules without variants
OutModules ==
    { [moduleDir |-> <<"d">>, moduleName |-> <<"a">>, moduleSubDir |-> <<"b">>],
      [moduleDir |-> <<"d">>, moduleName |-> <<"a">>, moduleSubDir |-> <<"c">>],
      [moduleDir |-> <<"d", Slash, "a">>, moduleName |-> <<"b">>, moduleSubDir |-> Empty],
      [moduleDir |-> <<Dot>>, moduleName |-> <<"c">>, moduleSubDir |-> Empty] }

\* the components the modules ask for
OutComponents == { <<"x">>, <<"b", Slash, "x">>, <<"x", Dot, "c">> }

\* the source files of the modules
OutSources == { <<"x", Dot, "c">> }
OutSubdirs == { Empty, <<"s">> }
OutExts == { <<"h">> }

OutFiles == { Join(<<m.moduleDir, f>>) : m \in OutModules, f \in OutSources }

OutCtx(m) == [MkCtx("module", FALSE, m) EXCEPT !.fs = OutFiles]

Identity(c) == [moduleDir |-> c.moduleDir, moduleName |-> c.moduleName,
                moduleSubDir |-> c.moduleSubDir]

InitOutputs ==
    /\ ctx \in {OutCtx(m) : m \in OutModules}
    /\ rep = NoReport
    /\ call = Idle
    /\ outputs = {}

\* the evaluation goes on to another module
VisitModule ==
    /\ call.op # "idle"
    /\ \E m \in OutModules : ctx' = OutCtx(m)
    /\ rep' = NoReport
    /\ call' = Idle
    /\ UNCHANGED outputs

\* the path v of the module of ctx is recorded as allocated
Allocate(op, args, recv, v) ==
    /\ Cardinality(outputs) < MaxOutputs
    /\ call' = MkCall(op, args, "ok", recv, v.ret, NoErr)
    /\ rep' = v.rep
    /\ outputs' = outputs \cup {[module |-> Identity(ctx), path |-> String(ctx.config, v.ret)]}
    /\ UNCHANGED ctx

DoPathForModuleOut ==
    /\ call.op = "idle"
    /\ \E p \in OutComponents :
          Allocate("PathForModuleOut", <<p>>, NoPath, PathForModuleOut(ctx, NoReport, <<p>>))

DoPathForModuleGen ==
    /\ call.op = "idle"
    /\ \E p \in OutComponents :
          Allocate("PathForModuleGen", <<p>>, NoPath, PathForModuleGen(ctx, NoReport, <<p>>))

DoPathForModuleObj ==
    /\ call.op = "idle"
    /\ \E p \in OutComponents :
          Allocate("PathForModuleObj", <<p>>, NoPath, PathForModuleObj(ctx, NoReport, <<p>>))

DoPathForModuleRes ==
    /\ call.op = "idle"
    /\ \E p \in OutComponents :
          Allocate("PathForModuleRes", <<p>>, NoPath, PathForModuleRes(ctx, NoReport, <<p>>))

DoGenPathWithExt ==
    /\ call.op = "idle"
    /\ \E f \in OutSources, subdir \in OutSubdirs, ext \in OutExts :
          \E src \in {PathForModuleSrc(ctx, <<f>>, "ok")} :
              Allocate("GenPathWithExt", <<subdir, ext>>, src.ret,
                       GenPathWithExt(ctx, src.rep, subdir, src.ret, ext))

DoObjPathWithExt ==
    /\ call.op = "idle"
    /\ \E f \in OutSources, subdir \in OutSubdirs, ext \in OutExts :
          \E src \in {PathForModuleSrc(ctx, <<f>>, "ok")} :
              Allocate("ObjPathWithExt", <<subdir, ext>>, src.ret,
                       ObjPathWithExt(ctx, src.rep, subdir, src.ret, ext))

DoResPathWithName ==
    /\ call.op = "idle"
    /\ \E f \in OutSources, name \in OutComponents :
          \E src \in {PathForModuleSrc(ctx, <<f>>, "ok")} :
              Allocate("ResPathWithName", <<name>>, src.ret,
                       ResPathWithName(ctx, src.rep, src.ret, name))

DoModuleOutJoin ==
    /\ call.op = "PathForModuleOut"
    /\ \E p \in OutComponents :
          Allocate("OutputPath.Join", <<p>>, call.ret, OutputPathJoin(ctx, call.ret, <<p>>))

NextOutputs ==
    \/ VisitModule
    \/ DoPathForModuleOut
    \/ DoPathForModuleGen
    \/ DoPathForModuleObj
    \/ DoPathForModuleRes
    \/ DoGenPathWithExt
    \/ DoObjPathWithExt
    \/ DoResPathWithName
    \/ DoModuleOutJoin

SpecOutputs == InitOutputs /\ [][NextOutputs]_vars

\* C1: two module variants that differ in (module name, variant
\* sub-directory) are never given the same path by PathForModuleOut,
\* PathForModuleGen, PathForModuleObj or PathForModuleRes, whatever the
\* components.
C1_DistinctVariantsDistinctPaths ==
    \A o1, o2 \in outputs :
        <<o1.module.moduleName, o1.module.moduleSubDir>>
            # <<o2.module.moduleName, o2.module.moduleSubDir>>
        => o1.path # o2.path

\* C5: Rel() of a path derived by a re-rooting helper is the relative name
\* that went in (with the extension replaced where one was asked for),
\* whatever the module directory and the root the helper uses.
C5_RelRoundTrip ==
    /\ call.op \in {"PathForModuleOut", "PathForModuleGen", "PathForModuleObj",
                    "PathForModuleRes", "OutputPath.Join"}
          => Rel(call.ret) = Join(call.args)
    /\ call.op \in {"GenPathWithExt", "ObjPathWithExt"}
          => Rel(call.ret) = ReplaceExtension(Rel(call.recv), call.args[2])
    /\ call.op = "ResPathWithName"
          => Rel(call.ret) = Join(<<Rel(call.recv), call.args[1]>>)


-----------------------------------------------------------------------------
(* Install paths                                                           *)

\* the attributes of a ModuleInstallPathContext that decide where a module
\* is installed
InstallFlags == {"InstallInData", "InstallInRecovery", "SocSpecific", "DeviceSpecific",
                 "ProductSpecific", "ProductServicesSpecific", "InstallInSanitizerDir"}

\* DeviceConfig(): the partition paths of the product
DevicePaths == [VendorPath |-> <<"vendor">>, OdmPath |-> <<"odm">>,
                ProductPath |-> <<"product">>,
                ProductServicesPath |-> <<"product_services">>]

\* modulePartition that looks at DeviceSpecific before SocSpecific
modulePartitionOdmFirst(c) ==
    LET partition ==
            IF c.flags["InstallInData"] THEN <<"data">>
            ELSE IF c.flags["InstallInRecovery"]
                 THEN <<"recovery", Slash, "root", Slash, "system">>
            ELSE IF c.flags["DeviceSpecific"] THEN c.device.OdmPath
            ELSE IF c.flags["SocSpecific"] THEN c.device.VendorPath
            ELSE IF c.flags["ProductSpecific"] THEN c.device.ProductPath
            ELSE IF c.flags["ProductServicesSpecific"] THEN c.device.ProductServicesPath
            ELSE <<"system">>
    IN  IF c.flags["InstallInSanitizerDir"]
        THEN <<"data", Slash, "asan", Slash>> \o partition
        ELSE partition

\* modulePartition
modulePartition(c) ==
    LET partition ==
            IF c.flags["InstallInData"] THEN <<"data">>
            ELSE IF c.flags["InstallInRecovery"]
                 THEN <<"recovery", Slash, "root", Slash, "system">>
            ELSE IF c.flags["SocSpecific"] THEN c.device.VendorPath
            ELSE IF c.flags["DeviceSpecific"] THEN c.device.OdmPath
            ELSE IF c.flags["ProductSpecific"] THEN c.device.ProductPath
            ELSE IF c.flags["ProductServicesSpecific"] THEN c.device.ProductServicesPath
            ELSE <<"system">>
    IN  IF c.flags["InstallInSanitizerDir"]
        THEN <<"data", Slash, "asan", Slash>> \o partition
        ELSE partition

\* the operating systems of a build: the device's, and the hosts'
DeviceOs == "android"
HostOses == {"linux", "linux_bionic", "darwin"}

\* PathForModuleInstall
PathForModuleInstall(c, r, pathComponents) ==
    LET outPaths ==
            IF c.os = DeviceOs
            THEN <<<<"target">>, <<"product">>, c.config.deviceName, modulePartition(c)>>
            ELSE IF c.os = "linux" THEN <<<<"host">>, <<"linux", "-x86">>>>
            ELSE IF c.os = "linux_bionic" THEN <<<<"host">>, <<"linux_bionic", "-x86">>>>
            ELSE <<<<"host">>, <<c.os, "-x86">>>>
        withDebug == IF c.debug THEN <<<<"debug">>>> \o outPaths ELSE outPaths
    IN  PathForOutput(c, r, withDebug \o pathComponents)

\* the elements of a cleaned path; "." has none
RelElems(s) == Let(Clean(s), LAMBDA cl : IF cl = <<Dot>> THEN << >> ELSE Split(cl))

\* the number of leading elements two lists share
RECURSIVE CommonPrefix(_, _)
CommonPrefix(a, b) ==
    IF a = << >> \/ b = << >> \/ Head(a) # Head(b) THEN 0
    ELSE 1 + CommonPrefix(Tail(a), Tail(b))

\* filepath.Rel: the elements the two cleaned paths share are dropped, every
\* element left of the base becomes a "..", and a ".." left in the base cannot
\* be walked back
filepathRel(basePath, targetPath) ==
    Let(RelElems(basePath), LAMBDA b :
    Let(RelElems(targetPath), LAMBDA t :
    Let(CommonPrefix(b, t), LAMBDA k :
        IF \E i \in (k + 1)..Len(b) : b[i] = DotDot
        THEN [rel |-> Empty, err |-> "cannotMakeRelative"]
        ELSE IF k = Len(b) /\ k = Len(t) THEN [rel |-> <<Dot>>, err |-> NoErr]
        ELSE [rel |-> JoinSep([i \in 1..(Len(b) - k) |-> DotDot] \o SubSeq(t, k + 1, Len(t))),
              err |-> NoErr])))

\* MaybeRel
MaybeRel(c, r, basePath, targetPath) ==
    IF IsAbs(basePath) # IsAbs(targetPath) THEN [rel |-> Empty, isRel |-> FALSE, rep |-> r]
    ELSE Let(filepathRel(basePath, targetPath), LAMBDA fr :
             IF fr.err # NoErr
             THEN [rel |-> Empty, isRel |-> FALSE, rep |-> reportPathError(c, r, fr.err)]
             ELSE IF fr.rel = DotDot \/ HasPrefix(fr.rel, <<Dot, Dot, Slash>>)
                        \/ HasPrefix(fr.rel, <<Slash>>)
                  THEN [rel |-> Empty, isRel |-> FALSE, rep |-> r]
                  ELSE [rel |-> fr.rel, isRel |-> TRUE, rep |-> r])

\* Rel, the function of two path strings (basePath.Rel is Rel above)
RelOf(c, r, basePath, targetPath) ==
    Let(MaybeRel(c, r, basePath, targetPath), LAMBDA m :
        IF ~m.isRel THEN [rel |-> Empty, rep |-> reportPathErrorf(c, m.rep, "notUnder")]
        ELSE [rel |-> m.rel, rep |-> m.rep])

\* InstallPathToOnDevicePath
InstallPathToOnDevicePath(c, r, path) ==
    Let(PathForOutput(c, r, <<<<"target">>, <<"product">>, c.config.deviceName>>), LAMBDA base :
    Let(RelOf(c, base.rep, String(c.config, base.ret), String(c.config, path)), LAMBDA rl :
        [ret |-> <<Slash>> \o rl.rel, rep |-> rl.rep]))

-----------------------------------------------------------------------------
(* android_app                                                             *)

FrameworkRes == <<"framework-res">>
Apk == <<Dot, "apk">>

\* ctx.DeviceConfig().OverridePackageNameFor
OverridePackageNameFor(c, name) ==
    IF name \in DOMAIN c.packageNameOverrides THEN c.packageNameOverrides[name] ELSE name

\* ctx.InstallFile(installPath, name, srcPath): the installed file
InstallFile(c, installPath, name) == OutputPathJoin(c, installPath, <<name>>).ret

Colon == ":"

\* android.SrcIsModule: the module name of ":name", "" for any other string
SrcIsModule(s) == IF Len(s) > 1 /\ s[1] = Colon THEN Tail(s) ELSE Empty

\* ctx.PropertyErrorf: the error is added to those of the module
PropertyErrorf(r, what) == [r EXCEPT !.errs = Append(@, [by |-> "PropertyErrorf", what |-> what])]

\* AndroidApp.getCertString
getCertString(c, a) ==
    IF c.moduleName \in DOMAIN c.product.certificateOverrides
    THEN <<Colon>> \o c.product.certificateOverrides[c.moduleName]
    ELSE a.certificate

\* ctx.AddFarVariationDependencies(variation, tag, names...): one edge per
\* name, to the variant of that module with the given variations
AddFarVariationDependencies(arch, link, tag, target, names) ==
    [i \in 1..Len(names) |->
        [name |-> names[i], tag |-> tag, target |-> target, far |-> TRUE,
         arch |-> arch, link |-> link]]

\* ctx.AddDependency(ctx.Module(), tag, name): one edge within the variant
AddDependency(tag, name) ==
    <<[name |-> name, tag |-> tag, target |-> "", far |-> FALSE, arch |-> "", link |-> ""]>>

\* AndroidApp.DepsMutator that adds the jni edges for the first target only
RECURSIVE jniDepsFirstTargetOnly(_, _, _, _)
jniDepsFirstTargetOnly(c, a, i, edges) ==
    IF i > Len(c.multiTargets) \/ i > 1 THEN edges
    ELSE jniDepsFirstTargetOnly(c, a, i + 1,
             edges \o AddFarVariationDependencies(c.multiTargets[i], "shared", "jni",
                                                  c.multiTargets[i], a.jniLibs))

\* AndroidApp.DepsMutator: the loop over ctx.MultiTargets() from target i on
RECURSIVE jniDeps(_, _, _, _)
jniDeps(c, a, i, edges) ==
    IF i > Len(c.multiTargets) THEN edges
    ELSE jniDeps(c, a, i + 1,
             edges \o AddFarVariationDependencies(c.multiTargets[i], "shared", "jni",
                                                  c.multiTargets[i], a.jniLibs))

\* AndroidApp.DepsMutator: the loop over additional_certificates from i on
RECURSIVE additionalCertificateDeps(_, _, _, _)
additionalCertificateDeps(a, i, edges, r) ==
    IF i > Len(a.additionalCertificates) THEN [edges |-> edges, rep |-> r]
    ELSE IF SrcIsModule(a.additionalCertificates[i]) # Empty
         THEN additionalCertificateDeps(a, i + 1,
                  edges \o AddDependency("certificate",
                                         SrcIsModule(a.additionalCertificates[i])), r)
         ELSE additionalCertificateDeps(a, i + 1, edges,
                  PropertyErrorf(r, "additional_certificates"))

\* Module.deps: the edges to the static_libs of the module
ModuleDeps(a) ==
    [i \in 1..Len(a.staticLibs) |->
        [name |-> a.staticLibs[i], tag |-> "staticLib", target |-> "", far |-> FALSE,
         arch |-> "", link |-> ""]]

\* AndroidApp.DepsMutator: the edges of the app in the order they are added
DepsMutator(c, r, a) ==
    Let(jniDeps(c, a, 1, ModuleDeps(a)), LAMBDA jni :
    Let(SrcIsModule(getCertString(c, a)), LAMBDA cert :
        additionalCertificateDeps(a, 1,
            IF cert # Empty THEN jni \o AddDependency("certificate", cert) ELSE jni, r)))

\* AndroidApp.collectAppDeps: the visit of the direct dependencies from i on
RECURSIVE collectAppDepsFrom(_, _, _, _, _, _)
collectAppDepsFrom(c, r, deps, i, jniLibs, certificates) ==
    IF i > Len(deps) THEN [jniLibs |-> jniLibs, certificates |-> certificates, rep |-> r]
    ELSE LET d == deps[i]
         IN  IF d.tag = "jni"
             THEN IF d.type = "cc"
                  THEN IF d.output.valid
                       THEN collectAppDepsFrom(c, r, deps, i + 1,
                                Append(jniLibs, [name |-> d.name, path |-> d.output.path,
                                                 target |-> d.target]),
                                certificates)
                       ELSE collectAppDepsFrom(c, ModuleErrorf(r, "missing output file"),
                                deps, i + 1, jniLibs, certificates)
                  ELSE collectAppDepsFrom(c, ModuleErrorf(r, "must be a cc library"),
                           deps, i + 1, jniLibs, certificates)
             ELSE IF d.tag = "certificate"
             THEN IF d.type = "android_app_certificate"
                  THEN collectAppDepsFrom(c, r, deps, i + 1, jniLibs,
                           Append(certificates, d.certificate))
                  ELSE collectAppDepsFrom(c,
                           ModuleErrorf(r, "must be an android_app_certificate module"),
                           deps, i + 1, jniLibs, certificates)
             ELSE collectAppDepsFrom(c, r, deps, i + 1, jniLibs, certificates)

collectAppDeps(c, r, deps) == collectAppDepsFrom(c, r, deps, 1, << >>, << >>)

\* ctx.Build(pctx, BuildParams{Rule, Output, Inputs}): one build statement
Build(rule, output, inputs) ==
    [rule |-> rule, output |-> output, inputs |-> inputs, implicits |-> << >>,
     args |-> Empty]

\* the report r with what another call has reported added to it
MergeReports(r, more) ==
    [r EXCEPT !.errs = @ \o more.errs, !.panicked = @ \/ more.panicked]

\* AndroidApp.aaptBuildActions: a.aapt.buildActions links the resources into
\* the export package
aaptBuildActions(c, r) ==
    Let(PathForModuleOut(c, r, << <<"package-res", Dot, "apk">> >>), LAMBDA out :
        [exportPackage |-> out.ret, rep |-> out.rep,
         actions |-> <<Build("aapt2Link", out.ret, << >>)>>])

\* AndroidApp.proguardBuildActions: the flag files exported by the static
\* library dependencies from dependency i on, in the order of the visit
RECURSIVE staticLibProguardFlagFiles(_, _, _)
staticLibProguardFlagFiles(deps, i, files) ==
    IF i > Len(deps) THEN files
    ELSE IF deps[i].tag = "staticLib" /\ deps[i].type = "android_library"
         THEN staticLibProguardFlagFiles(deps, i + 1, files \o deps[i].proguard)
         ELSE staticLibProguardFlagFiles(deps, i + 1, files)

\* AndroidApp.proguardBuildActions: Module.extraProguardFlagFiles
proguardBuildActions(c, a) ==
    Slice(FirstUniquePaths(staticLibProguardFlagFiles(a.deps, 1, << >>)))
        \o <<MkPath("ModuleOutPath", <<"proguard", Dot, "options">>, Empty)>>

\* AndroidApp.dexBuildActions: dexpreopter.installPath, isInstallable, and
\* the compilation of every app but framework-res
dexBuildActions(c, r, a, installApkName) ==
    Let(IF c.moduleName = FrameworkRes THEN <<"framework">>
        ELSE IF a.privileged THEN Join(<<<<"priv-app">>, installApkName>>)
        ELSE Join(<<<<"app">>, installApkName>>), LAMBDA installDir :
    Let(PathForModuleInstall(c, r, <<installDir, installApkName \o Apk>>), LAMBDA p :
        IF c.moduleName # FrameworkRes
        THEN Let(PathForModuleOut(c, p.rep, << <<"dex">>, c.moduleName \o <<Dot, "jar">> >>),
                 LAMBDA jar :
                 [ret |-> p.ret, isInstallable |-> a.installable = TRUE, rep |-> jar.rep,
                  dexJarFile |-> jar.ret, actions |-> <<Build("javac", jar.ret, << >>)>>])
        ELSE [ret |-> p.ret, isInstallable |-> a.installable = TRUE, rep |-> p.rep,
              dexJarFile |-> NoPath, actions |-> << >>]))

\* AndroidApp.jniBuildActions
jniBuildActions(c, r, a, jniLibs) ==
    IF Len(jniLibs) > 0
    THEN IF c.product.unbundledBuild \/ a.useEmbeddedNativeLibs = TRUE
         THEN Let(PathForModuleOut(c, r, << <<"jnilibs", Dot, "zip">> >>), LAMBDA jar :
                  [jniJarFile |-> jar.ret, installJniLibs |-> << >>, rep |-> jar.rep,
                   actions |-> <<Build("zip", jar.ret,
                                       [i \in 1..Len(jniLibs) |-> jniLibs[i].path])>>])
         ELSE [jniJarFile |-> NoPath, installJniLibs |-> jniLibs, rep |-> r,
               actions |-> << >>]
    ELSE [jniJarFile |-> NoPath, installJniLibs |-> << >>, rep |-> r, actions |-> << >>]

X509Pem == <<Dot, "x509", Dot, "pem">>
Pk8 == <<Dot, "pk8">>

\* Certificate{Pem, Key}
Certificate(pem, key) == [pem |-> pem, key |-> key]

\* ctx.Config().DefaultAppCertificateDir
DefaultAppCertificateDir(c) == MkPath("SourcePath", c.product.defaultAppCertificateDir, Empty)

\* ctx.Config().DefaultAppCertificate: the test key of the default directory
DefaultAppCertificate(c) ==
    Certificate(withRel(DefaultAppCertificateDir(c), <<"testkey">> \o X509Pem),
                withRel(DefaultAppCertificateDir(c), <<"testkey">> \o Pk8))

\* Module.Platform: the module is installed on no vendor, odm or product
\* partition
Platform(c) ==
    ~(c.flags["SocSpecific"] \/ c.flags["DeviceSpecific"]
        \/ c.flags["ProductSpecific"] \/ c.flags["ProductServicesSpecific"])

\* AndroidApp.certificateBuildActions: the choice of a.certificate.  rest is
\* what is left of certificateDeps.  certificateDeps[0] of an empty slice
\* panics.
appCertificate(c, r, a, certificateDeps) ==
    Let(getCertString(c, a), LAMBDA cert :
        IF SrcIsModule(cert) # Empty
        THEN IF Len(certificateDeps) = 0
             THEN [certificate |-> Certificate(NoPath, NoPath), rest |-> << >>,
                   rep |-> [r EXCEPT !.panicked = TRUE]]
             ELSE [certificate |-> certificateDeps[1], rest |-> Tail(certificateDeps),
                   rep |-> r]
        ELSE IF cert # Empty
        THEN Let(SourcePathJoin(c, DefaultAppCertificateDir(c), <<cert \o X509Pem>>),
                 LAMBDA pem :
             Let(SourcePathJoin(c, DefaultAppCertificateDir(c), <<cert \o Pk8>>),
                 LAMBDA key :
                 [certificate |-> Certificate(pem.ret, key.ret), rest |-> certificateDeps,
                  rep |-> MergeReports(MergeReports(r, pem.rep), key.rep)]))
        ELSE [certificate |-> DefaultAppCertificate(c), rest |-> certificateDeps,
              rep |-> r])

\* AndroidApp.certificateBuildActions without the app's own certificate in
\* front of the list
certificateBuildActionsDepsOnly(c, r, a, certificateDeps) ==
    Let(appCertificate(c, r, a, certificateDeps), LAMBDA own :
        [certificate |-> own.certificate, certificates |-> own.rest, rep |-> own.rep])

\* AndroidApp.certificateBuildActions
certificateBuildActions(c, r, a, certificateDeps) ==
    Let(appCertificate(c, r, a, certificateDeps), LAMBDA own :
        [certificate |-> own.certificate,
         certificates |-> <<own.certificate>> \o own.rest,
         rep |-> IF /\ ~own.rep.panicked
                    /\ ~Platform(c)
                    /\ HasPrefix(String(c.config, own.certificate.pem),
                                 String(c.config, DefaultAppCertificateDir(c)))
                    /\ c.product.enforceSystemCertificate
                    /\ c.moduleName \notin c.product.enforceSystemCertificateWhitelist
                 THEN PropertyErrorf(own.rep, "certificate")
                 ELSE own.rep])

\* the install step of generateAndroidBuildActions with the privileged and
\* the normal branch exchanged
appInstallDirSwapped(c, r, a, installApkName) ==
    IF c.moduleName = FrameworkRes THEN PathForModuleInstall(c, r, <<<<"framework">>>>)
    ELSE IF a.privileged THEN PathForModuleInstall(c, r, <<<<"app">>, installApkName>>)
    ELSE PathForModuleInstall(c, r, <<<<"priv-app">>, installApkName>>)

\* the install step of generateAndroidBuildActions: the directory handed to
\* ctx.InstallFile
appInstallDir(c, r, a, installApkName) ==
    IF c.moduleName = FrameworkRes THEN PathForModuleInstall(c, r, <<<<"framework">>>>)
    ELSE IF a.privileged THEN PathForModuleInstall(c, r, <<<<"priv-app">>, installApkName>>)
    ELSE PathForModuleInstall(c, r, <<<<"app">>, installApkName>>)

\* what an app that has not been assembled holds
NoApp == [installApkName |-> Empty, dexInstallPath |-> NoPath, isInstallable |-> FALSE,
          jniLibs |-> << >>, installJniLibs |-> << >>, certificateDeps |-> << >>,
          certificates |-> << >>, extraProguardFlagFiles |-> << >>,
          outputFile |-> NoPath, bundleFile |-> NoPath,
          installDir |-> NoPath, installed |-> << >>, actions |-> << >>]

\* generateAndroidBuildActions up to the test of ctx.Failed(): the building
\* blocks from aapt to the jni libraries
appBuildingBlocks(c, a) ==
    Let(OverridePackageNameFor(c, c.moduleName), LAMBDA installApkName :
    Let(aaptBuildActions(c, NoReport), LAMBDA aapt :
    Let(dexBuildActions(c, aapt.rep, a, installApkName), LAMBDA dex :
    Let(collectAppDeps(c, dex.rep, a.deps), LAMBDA deps :
    Let(jniBuildActions(c, deps.rep, a, deps.jniLibs), LAMBDA jni :
        [app |-> [NoApp EXCEPT !.installApkName = installApkName,
                               !.dexInstallPath = dex.ret,
                               !.isInstallable = dex.isInstallable,
                               !.extraProguardFlagFiles = proguardBuildActions(c, a),
                               !.jniLibs = deps.jniLibs,
                               !.installJniLibs = jni.installJniLibs,
                               !.certificateDeps = deps.certificates,
                               !.actions = aapt.actions \o dex.actions \o jni.actions],
         exportPackage |-> aapt.exportPackage, dexJarFile |-> dex.dexJarFile,
         jniJarFile |-> jni.jniJarFile, rep |-> jni.rep])))))

\* AndroidApp.generateAndroidBuildActions
generateAndroidBuildActions(c, a) ==
    Let(appBuildingBlocks(c, a), LAMBDA b :
        IF Failed(b.rep)
        THEN [app |-> b.app, rep |-> b.rep]
        ELSE Let(certificateBuildActions(c, b.rep, a, b.app.certificateDeps), LAMBDA certs :
             Let(PathForModuleOut(c, certs.rep, <<c.moduleName \o Apk>>),
                 LAMBDA packageFile :
             Let(PathForModuleOut(c, packageFile.rep, <<<<"base", Dot, "zip">>>>),
                 LAMBDA bundleFile :
             Let(appInstallDir(c, bundleFile.rep, a, b.app.installApkName), LAMBDA dir :
             Let(IF c.moduleName = FrameworkRes THEN c.moduleName \o Apk
                 ELSE b.app.installApkName \o Apk, LAMBDA name :
                 [app |-> [b.app EXCEPT
                              !.certificates = certs.certificates,
                              !.outputFile = packageFile.ret,
                              !.bundleFile = bundleFile.ret,
                              !.installDir = dir.ret,
                              !.installed = <<InstallFile(c, dir.ret, name)>>,
                              !.actions = @ \o <<Build("signapk", packageFile.ret,
                                                       <<b.exportPackage, b.jniJarFile,
                                                         b.dexJarFile>>),
                                                 Build("buildBundleModule", bundleFile.ret,
                                                       <<b.exportPackage, b.jniJarFile,
                                                         b.dexJarFile>>)>>],
                  rep |-> dir.rep]))))))


-----------------------------------------------------------------------------
(* apex_key and apexkeys.txt                                               *)

\* the index after the last separator of s at or before i
RECURSIVE BaseFrom(_, _)
BaseFrom(s, i) == IF i = 0 \/ s[i] = Slash THEN i ELSE BaseFrom(s, i - 1)

\* basePath.Base: filepath.Base of the path
Base(s) == IF s = Empty THEN <<Dot>> ELSE SubSeq(s, BaseFrom(s, Len(s)) + 1, Len(s))

\* the key name of a key file: Base() without Ext()
KeyName(p) == SubSeq(Base(p.path), 1, Len(Base(p.path)) - Len(Ext(p.path)))

\* ctx.Config().ApexKeyDir: the directory the configuration names for the
\* apex keys, and the directory of the module when it names none
ApexKeyDir(c) ==
    IF c.apexKeyDir = Empty THEN MkPath("SourcePath", c.moduleDir, Empty)
    ELSE MkPath("SourcePath", c.apexKeyDir, Empty)

\* apexKey.installable.  "unset" is the nil pointer.
installable(m) == m.installable = "unset" \/ m.installable = "true"

\* one of the two key files, taken from the directory of the module without
\* a look at the apex key directory
apexKeyFileLocalOnly(c, r, name) ==
    Let(PathForModuleSrc(c, <<name>>, "ok"), LAMBDA local :
        [ret |-> local.ret, rep |-> MergeReports(r, local.rep)])

\* apexKey.GenerateAndroidBuildActions: one of the two key files
apexKeyFile(c, r, name) ==
    Let(SourcePathJoin(c, ApexKeyDir(c), <<name>>), LAMBDA joined :
    Let(ExistentPathForSource(c, MergeReports(r, joined.rep),
                              <<String(c.config, joined.ret)>>, "ok"), LAMBDA found :
        IF found.ret.valid THEN [ret |-> joined.ret, rep |-> found.rep]
        ELSE Let(PathForModuleSrc(c, <<name>>, "ok"), LAMBDA local :
                 [ret |-> local.ret, rep |-> MergeReports(found.rep, local.rep)])))

\* what an apex_key that has not been assembled holds
NoKey == [public_key_file |-> NoPath, private_key_file |-> NoPath, keyName |-> Empty,
          installed |-> << >>, installedFrom |-> << >>]

\* apexKey.GenerateAndroidBuildActions
apexKeyGenerateAndroidBuildActions(c, m) ==
    Let(apexKeyFile(c, NoReport, m.public_key), LAMBDA pub :
    Let(apexKeyFile(c, pub.rep, m.private_key), LAMBDA priv :
        IF KeyName(pub.ret) # KeyName(priv.ret)
        THEN [key |-> [NoKey EXCEPT !.public_key_file = pub.ret,
                                    !.private_key_file = priv.ret],
              rep |-> ModuleErrorf(priv.rep, "keyname")]
        ELSE Let(PathForModuleInstall(c, priv.rep,
                     << <<"etc", Slash, "security", Slash, "apex">> >>), LAMBDA dir :
                 [key |-> [public_key_file |-> pub.ret, private_key_file |-> priv.ret,
                           keyName |-> KeyName(pub.ret),
                           installed |-> IF installable(m)
                                         THEN <<InstallFile(c, dir.ret, KeyName(pub.ret))>>
                                         ELSE << >>,
                           installedFrom |-> IF installable(m) THEN <<pub.ret>> ELSE << >>],
                  rep |-> dir.rep])))

Quote == "\""

\* fmt's %q of a string
Quoted(s) == <<Quote>> \o s \o <<Quote>>

\* apexKeysText.GenerateBuildActions: the record of one apex bundle
ApexKeysRecord(c, m) ==
    <<"name=">> \o Quoted(m.name \o <<Dot, "apex">>)
    \o <<" public_key=">> \o Quoted(String(c.config, m.public_key_file))
    \o <<" private_key=">> \o Quoted(String(c.config, m.private_key_file))
    \o <<" container_certificate=">> \o Quoted(String(c.config, m.container_certificate_file))
    \o <<" container_private_key=">> \o Quoted(String(c.config, m.container_private_key_file))
    \o <<"\\n">>

\* the visit of apexKeysText.GenerateBuildActions without the test of
\* Enabled()
RECURSIVE apexKeysContentAlsoDisabled(_, _, _, _)
apexKeysContentAlsoDisabled(c, modules, i, content) ==
    IF i > Len(modules) THEN content
    ELSE IF modules[i].type = "apex"
    THEN apexKeysContentAlsoDisabled(c, modules, i + 1,
                                     content \o ApexKeysRecord(c, modules[i]))
    ELSE apexKeysContentAlsoDisabled(c, modules, i + 1, content)

\* the visit of apexKeysText.GenerateBuildActions that ends at the first
\* disabled module
RECURSIVE apexKeysContentUntilDisabled(_, _, _, _)
apexKeysContentUntilDisabled(c, modules, i, content) ==
    IF i > Len(modules) THEN content
    ELSE IF ~modules[i].enabled THEN content
    ELSE IF modules[i].type = "apex"
    THEN apexKeysContentUntilDisabled(c, modules, i + 1,
                                      content \o ApexKeysRecord(c, modules[i]))
    ELSE apexKeysContentUntilDisabled(c, modules, i + 1, content)

\* apexKeysText.GenerateBuildActions: the visit, from module i on, of the
\* modules in the order VisitAllModules hands them over
RECURSIVE apexKeysContent(_, _, _, _)
apexKeysContent(c, modules, i, content) ==
    IF i > Len(modules) THEN content
    ELSE IF ~modules[i].enabled THEN apexKeysContent(c, modules, i + 1, content)
    ELSE IF modules[i].type = "apex"
    THEN apexKeysContent(c, modules, i + 1, content \o ApexKeysRecord(c, modules[i]))
    ELSE apexKeysContent(c, modules, i + 1, content)

\* apexKeysText.GenerateBuildActions: the build statement of apexkeys.txt
apexKeysTextGenerateBuildActions(c, modules) ==
    Let(PathForOutput(c, NoReport, << <<"apexkeys", Dot, "txt">> >>), LAMBDA output :
        [statement |-> [Build("WriteFile", output.ret, << >>)
                            EXCEPT !.args = apexKeysContent(c, modules, 1, Empty)],
         rep |-> output.rep])


-----------------------------------------------------------------------------
(* Installation as a state machine: a module of some kind, on some          *)
(* partition, for the device or a host, asks where it is installed         *)

InstallNames == { <<"foo">>, <<"app">>, FrameworkRes }

\* PRODUCT_PACKAGE_NAME_OVERRIDES: none, or foo and framework-res are packaged
\* as bar
NoOverrides == [n \in {} |-> n]
PackageNameOverrides == { NoOverrides, [n \in {<<"foo">>, FrameworkRes} |-> <<"bar">>] }

InstallComponents == { << <<"bin">> >>, << <<"lib">>, <<"x">> >>,
                       << <<"etc", Slash, "security">> >> }

\* the direct dependencies of an app: none, a cc library with an output
\* file, or a jni_libs dependency that is not a cc library
CcLib == [name |-> <<"libj">>, tag |-> "jni", type |-> "cc", target |-> "arm64",
          output |-> OptionalPathForPath(MkPath("ModuleOutPath", <<"libj", Dot, "so">>, Empty)),
          certificate |-> Certificate(NoPath, NoPath), proguard |-> << >>]
NotCcLib == [CcLib EXCEPT !.type = "java"]
AppDeps == { << >>, <<CcLib>>, <<NotCcLib>> }

\* the product variables of the configuration
DefaultProduct == [certificateOverrides |-> NoOverrides, unbundledBuild |-> FALSE,
                   defaultAppCertificateDir |-> <<"security">>,
                   enforceSystemCertificate |-> FALSE,
                   enforceSystemCertificateWhitelist |-> {}]

\* the properties of an android_app, the defaults of AndroidAppFactory and
\* the resolved direct dependencies
AppProps(privileged, deps) ==
    [privileged |-> privileged, deps |-> deps, installable |-> TRUE,
     certificate |-> Empty, additionalCertificates |-> << >>, jniLibs |-> << >>,
     staticLibs |-> << >>, useEmbeddedNativeLibs |-> FALSE]

InstallCtx(name, flags, os, debug, overrides) ==
    [kind |-> "module", config |-> DefaultConfig, fs |-> {},
     moduleDir |-> <<"d">>, moduleName |-> name, moduleSubDir |-> <<"android_common">>,
     flags |-> flags, os |-> os, debug |-> debug, device |-> DevicePaths,
     packageNameOverrides |-> overrides, product |-> DefaultProduct,
     multiTargets |-> <<"arm64">>, apexKeyDir |-> Empty]

InitInstall ==
    /\ ctx \in {InstallCtx(n, f, os, d, ov) :
                  n \in InstallNames, f \in [InstallFlags -> BOOLEAN],
                  os \in {DeviceOs} \cup HostOses, d \in BOOLEAN, ov \in PackageNameOverrides}
    /\ rep = NoReport
    /\ call = Idle
    /\ outputs = {}

DoModulePartition ==
    /\ call.op = "idle"
    /\ ctx.os = DeviceOs
    /\ call' = MkCall("modulePartition", << >>, "ok", NoPath,
                      MkPath("string", modulePartition(ctx), Empty), NoErr)
    /\ UNCHANGED <<ctx, rep, outputs>>

DoPathForModuleInstall ==
    /\ call.op = "idle"
    /\ \E comps \in InstallComponents :
          \E v \in {PathForModuleInstall(ctx, NoReport, comps)} :
              /\ call' = MkCall("PathForModuleInstall", comps, "ok", NoPath, v.ret, NoErr)
              /\ rep' = v.rep
    /\ UNCHANGED <<ctx, outputs>>

\* the module is an android_app and is assembled
DoAndroidApp ==
    /\ call.op = "idle"
    /\ \E privileged \in BOOLEAN, deps \in AppDeps :
          \E v \in {generateAndroidBuildActions(ctx, AppProps(privileged, deps))} :
              /\ call' = [op |-> "AndroidApp.GenerateAndroidBuildActions", props |-> AppProps(privileged, deps),
                          app |-> v.app]
              /\ rep' = v.rep
    /\ UNCHANGED <<ctx, outputs>>

\* a device module asks where on the device its install path is
DoInstallPathToOnDevicePath ==
    /\ call.op = "idle"
    /\ ctx.os = DeviceOs
    /\ \E comps \in InstallComponents :
          \E p \in {PathForModuleInstall(ctx, NoReport, comps)} :
              \E v \in {InstallPathToOnDevicePath(ctx, p.rep, p.ret)} :
                  /\ call' = MkCall("InstallPathToOnDevicePath", comps, "ok", p.ret,
                                    MkPath("string", v.ret, Empty), NoErr)
                  /\ rep' = v.rep
    /\ UNCHANGED <<ctx, outputs>>

NextInstall ==
    \/ DoModulePartition
    \/ DoPathForModuleInstall
    \/ DoAndroidApp
    \/ DoInstallPathToOnDevicePath

SpecInstall == InitInstall /\ [][NextInstall]_vars

\* the partitions in the order in which their flags are looked at
PartitionPriority ==
    << <<"InstallInData", <<"data">>>>,
       <<"InstallInRecovery", <<"recovery", Slash, "root", Slash, "system">>>>,
       <<"SocSpecific", <<"vendor">>>>,
       <<"DeviceSpecific", <<"odm">>>>,
       <<"ProductSpecific", <<"product">>>>,
       <<"ProductServicesSpecific", <<"product_services">>>> >>

\* the partition of the first flag in priority order that holds, system if none
ExpectedPartition(flags) ==
    LET holds == {i \in 1..Len(PartitionPriority) : flags[PartitionPriority[i][1]]}
        base == IF holds = {} THEN <<"system">>
                ELSE PartitionPriority[CHOOSE i \in holds : \A j \in holds : i <= j][2]
    IN  IF flags["InstallInSanitizerDir"] THEN <<"data", Slash, "asan", Slash>> \o base
        ELSE base

\* the directory below the build directory under which a module is installed
ExpectedInstallRoot(c) ==
    LET root == IF c.os = DeviceOs
                THEN <<<<"target">>, <<"product">>, c.config.deviceName, ExpectedPartition(c.flags)>>
                ELSE <<<<"host">>, <<c.os, "-x86">>>>
    IN  JoinSep(<<c.config.buildDir>> \o (IF c.debug THEN <<<<"debug">>>> ELSE << >>) \o root)

\* C9: modulePartition returns the partition of the fixed priority data >
\* recovery > vendor > odm > product > product_services > system, prefixed
\* with data/asan/ exactly when InstallInSanitizerDir holds, for every
\* combination of the flags; PathForModuleInstall places device modules under
\* target/product/<device>/<partition> and host modules under host/<os>-x86,
\* below a leading debug exactly when Debug holds.
C9_InstallPartition ==
    /\ call.op = "modulePartition" => call.ret.path = ExpectedPartition(ctx.flags)
    /\ call.op = "PathForModuleInstall"
          => /\ Accepted
             /\ String(ctx.config, call.ret)
                   = JoinSep(<<ExpectedInstallRoot(ctx)>> \o call.args)

\* a vendor module that is also device specific and product specific, built
\* with the sanitizer, is placed under data/asan/vendor of a debug build
C9_Witness ==
    /\ call.op = "PathForModuleInstall"
    /\ ctx.os = DeviceOs
    /\ ctx.debug
    /\ ctx.flags["SocSpecific"] /\ ctx.flags["DeviceSpecific"] /\ ctx.flags["ProductSpecific"]
    /\ ~ctx.flags["InstallInData"] /\ ~ctx.flags["InstallInRecovery"]
    /\ ctx.flags["InstallInSanitizerDir"]
    /\ HasPrefix(String(ctx.config, call.ret),
                 <<"o", Slash, "debug", Slash, "target", Slash, "product", Slash, "dev", Slash,
                   "data", Slash, "asan", Slash, "vendor", Slash>>)

\* the app of the last call is privileged and has registered an install
PrivilegedInstalled ==
    /\ call.op = "AndroidApp.GenerateAndroidBuildActions"
    /\ call.props.privileged
    /\ call.app.installed # << >>

InstalledFile == String(ctx.config, call.app.installed[1])

PrivAppDir == JoinSep(<<ExpectedInstallRoot(ctx), <<"priv-app">>, call.app.installApkName>>)
AppDir == JoinSep(<<ExpectedInstallRoot(ctx), <<"app">>, call.app.installApkName>>)

\* C10 as stated: a privileged android_app is installed under
\* priv-app/<installApkName> and never under app/<installApkName>, for every
\* module name.
C10_PrivilegedUnderPrivApp ==
    PrivilegedInstalled =>
        /\ Under(PrivAppDir, InstalledFile)
        /\ ~Under(AppDir, InstalledFile)

\* C10 amended: a privileged android_app whose module name is not
\* framework-res is installed as priv-app/<installApkName>/<installApkName>.apk
\* and not under app/<installApkName>; a module named framework-res is
\* installed as framework/framework-res.apk whether privileged or not.
C10_PrivilegedUnlessFrameworkRes ==
    /\ (PrivilegedInstalled /\ ctx.moduleName # FrameworkRes)
          => /\ InstalledFile = JoinSep(<<PrivAppDir, call.app.installApkName \o Apk>>)
             /\ ~Under(AppDir, InstalledFile)
    /\ (call.op = "AndroidApp.GenerateAndroidBuildActions" /\ call.app.installed # << >>
          /\ ctx.moduleName = FrameworkRes)
          => InstalledFile = JoinSep(<<ExpectedInstallRoot(ctx), <<"framework">>,
                                       FrameworkRes \o Apk>>)

\* a privileged app that is packaged under another name is installed for a
\* host build
C10_Witness ==
    /\ PrivilegedInstalled
    /\ ctx.moduleName = <<"foo">>
    /\ call.app.installApkName = <<"bar">>
    /\ ctx.os \in HostOses
    /\ InstalledFile = JoinSep(<<ExpectedInstallRoot(ctx), <<"priv-app">>, <<"bar">>,
                                 <<"bar", Dot, "apk">>>>)

-----------------------------------------------------------------------------
(* The apex keys as a state machine: apex bundles and an apex_key are      *)
(* declared, the apex_key is assembled, the apex_keys_text singleton       *)
(* writes apexkeys.txt, a module is removed or disabled and the singleton  *)
(* runs again                                                              *)

\* the names apex bundles are declared with
ApexNamePool == << <<"b">>, <<"a">>, <<"a", "b">>, <<"c">>, <<"b", "a">>, <<"a", "a">> >>
ApexNames == {ApexNamePool[i] : i \in 1..MaxModules}

Avbpubkey == <<Dot, "avbpubkey">>
Pem == <<Dot, "pem">>

\* an apex bundle as apexBundle.GenerateAndroidBuildActions leaves it: the
\* key files of its apex_key and its container certificate
ApexBundle(name, enabled) ==
    [name |-> name, type |-> "apex", enabled |-> enabled,
     public_key_file |-> MkPath("SourcePath", <<"d", Slash>> \o name \o Avbpubkey, Empty),
     private_key_file |-> MkPath("SourcePath", <<"d", Slash>> \o name \o Pem, Empty),
     container_certificate_file |->
         MkPath("SourcePath", <<"security", Slash, "testkey">> \o X509Pem, Empty),
     container_private_key_file |->
         MkPath("SourcePath", <<"security", Slash, "testkey">> \o Pk8, Empty)]

\* the apex_key of the model as the singleton sees it: a module of another
\* kind
KeyModuleName == <<"k">>
KeyModule == [ApexBundle(KeyModuleName, TRUE) EXCEPT !.type = "apex_key"]

\* the order of names: byte by byte, a prefix first
LetterRank(l) == CASE l = "a" -> 1 [] l = "b" -> 2 [] l = "c" -> 3 [] l = "k" -> 4
                   [] OTHER -> 5
RECURSIVE NameLess(_, _)
NameLess(s, t) ==
    IF t = Empty THEN FALSE
    ELSE IF s = Empty THEN TRUE
    ELSE IF s[1] # t[1] THEN LetterRank(s[1]) < LetterRank(t[1])
    ELSE NameLess(Tail(s), Tail(t))

\* ctx.VisitAllModules: the modules in the order of their names
RECURSIVE VisitAllModules(_)
VisitAllModules(modules) ==
    IF DOMAIN modules = {} THEN << >>
    ELSE Let(CHOOSE n \in DOMAIN modules : \A o \in DOMAIN modules : ~NameLess(o, n),
             LAMBDA first :
             <<modules[first]>>
                 \o VisitAllModules([n \in DOMAIN modules \ {first} |-> modules[n]]))

\* the module sets of the model: every apex name undeclared, declared and
\* enabled, or declared and disabled; the apex_key declared or not
ModuleSets ==
    {[n \in present \cup other |->
         IF n = KeyModuleName THEN KeyModule ELSE ApexBundle(n, n \in enabled)] :
        present \in SUBSET ApexNames, enabled \in SUBSET ApexNames,
        other \in {{}, {KeyModuleName}}}

\* the files of the module directory d
KeyFiles == {<<"d", Slash, "k">> \o Avbpubkey, <<"d", Slash, "k">> \o Pem,
             <<"d", Slash, "j">> \o Avbpubkey}

SingletonCtx(modules) ==
    [kind |-> "singleton", config |-> DefaultConfig, fs |-> KeyFiles, modules |-> modules]

\* the context of the apex_key module
KeyCtx ==
    [InstallCtx(KeyModuleName, [f \in InstallFlags |-> FALSE], DeviceOs, FALSE, NoOverrides)
        EXCEPT !.fs = KeyFiles]

\* the properties an apex_key is declared with
ApexKeyProps ==
    [public_key : {<<"k">> \o Avbpubkey, <<"j">> \o Avbpubkey, <<"n">> \o Avbpubkey},
     private_key : {<<"k">> \o Pem},
     installable : {"unset", "true", "false"}]

\* what the configuration names as apex key directory, and the key files
\* that directory holds
ConfiguredKeyDir == <<"keys">>
KeyDirFiles == { {}, {ConfiguredKeyDir \o <<Slash, "k">> \o Avbpubkey},
                 {ConfiguredKeyDir \o <<Slash, "k">> \o Avbpubkey,
                  ConfiguredKeyDir \o <<Slash, "k">> \o Pem} }

\* the contexts of the apex_key module: no apex key directory is configured,
\* or one that holds none, one or both of the key files
KeyCtxs ==
    {KeyCtx} \cup {[KeyCtx EXCEPT !.apexKeyDir = ConfiguredKeyDir, !.fs = KeyFiles \cup files] :
                      files \in KeyDirFiles}

NoStatement == Build("none", NoPath, << >>)

KeysIdle == [op |-> "idle", how |-> "none", module |-> Empty, old |-> Empty,
             props |-> [public_key |-> Empty, private_key |-> Empty, installable |-> "unset"],
             key |-> NoKey, c |-> KeyCtx]

InitKeys ==
    /\ ctx \in {SingletonCtx(ms) : ms \in ModuleSets}
    /\ rep = NoReport
    /\ call = KeysIdle
    /\ outputs = NoStatement

\* the apex_key of the module set is assembled
DoApexKey ==
    /\ call.op = "idle"
    /\ KeyModuleName \in DOMAIN ctx.modules
    /\ \E props \in ApexKeyProps, c \in KeyCtxs :
          \E v \in {apexKeyGenerateAndroidBuildActions(c, props)} :
              /\ call' = [KeysIdle EXCEPT !.op = "apexKey", !.props = props, !.key = v.key,
                                          !.c = c]
              /\ rep' = v.rep
    /\ UNCHANGED <<ctx, outputs>>

\* the apex_keys_text singleton runs
DoApexKeysText ==
    /\ call.op # "apexkeys"
    /\ \E v \in {apexKeysTextGenerateBuildActions(ctx, VisitAllModules(ctx.modules))} :
          /\ outputs' = v.statement
          /\ rep' = v.rep
    /\ call' = [call EXCEPT !.op = "apexkeys"]
    /\ UNCHANGED ctx

\* a module is taken out of the build description
DoRemoveModule ==
    /\ call.op = "apexkeys"
    /\ \E m \in DOMAIN ctx.modules :
          /\ ctx' = [ctx EXCEPT !.modules = [n \in DOMAIN ctx.modules \ {m} |-> ctx.modules[n]]]
          /\ call' = [call EXCEPT !.op = "changed", !.how = "removed", !.module = m,
                                  !.old = outputs.args]
    /\ UNCHANGED <<rep, outputs>>

\* a module is disabled in the build description
DoDisableModule ==
    /\ call.op = "apexkeys"
    /\ \E m \in DOMAIN ctx.modules :
          /\ ctx.modules[m].enabled
          /\ ctx' = [ctx EXCEPT !.modules[m].enabled = FALSE]
          /\ call' = [call EXCEPT !.op = "changed", !.how = "disabled", !.module = m,
                                  !.old = outputs.args]
    /\ UNCHANGED <<rep, outputs>>

NextKeys ==
    \/ DoApexKey
    \/ DoApexKeysText
    \/ DoRemoveModule
    \/ DoDisableModule

SpecKeys == InitKeys /\ [][NextKeys]_vars

\* the places of a content where a record ends
Marks(content) == {i \in 1..Len(content) : content[i] = "\\n"}

\* the k-th end-of-record mark of a content, 0 for k = 0
Mark(content, k) ==
    IF k = 0 THEN 0
    ELSE CHOOSE i \in Marks(content) : Cardinality({j \in Marks(content) : j < i}) = k - 1

\* the records of a content: what stands before each end-of-record mark
Records(content) ==
    [k \in 1..Cardinality(Marks(content)) |->
        SubSeq(content, Mark(content, k - 1) + 1, Mark(content, k) - 1)]

\* the bundle a record is about: its name field without the quotes and
\* without .apex
NameOfRecord(rec) ==
    SubSeq(rec, 3, (CHOOSE j \in 3..Len(rec) :
                       rec[j] = Quote /\ \A k \in 3..(j - 1) : rec[k] # Quote) - 3)

RecordNames(content) ==
    [i \in 1..Len(Records(content)) |-> NameOfRecord(Records(content)[i])]

\* the apex bundles of the build description that are enabled
EnabledBundles ==
    {n \in DOMAIN ctx.modules : ctx.modules[n].type = "apex" /\ ctx.modules[n].enabled}

Range(seq) == {seq[i] : i \in DOMAIN seq}

\* the singleton has just written apexkeys.txt for the modules of ctx
KeysWritten == call.op = "apexkeys"

\* C11 (the apex_key half): an apex_key is installed below etc/security/apex
\* under its key name exactly when installable is unset or true and the key
\* names of its two files agree.
ApexKeyInstalledWhenInstallable ==
    call.op = "apexKey"
        => /\ call.key.installed # << >>
                <=> /\ call.props.installable \in {"unset", "true"}
                    /\ SubSeq(call.props.public_key, 1, 1)
                           = SubSeq(call.props.private_key, 1, 1)
           /\ call.key.installed # << >>
                => String(KeyCtx.config, call.key.installed[1])
                       = JoinSep(<<ExpectedInstallRoot(KeyCtx),
                                   <<"etc", Slash, "security", Slash, "apex">>,
                                   SubSeq(call.props.public_key, 1, 1)>>)

\* C12: the statement that writes apexkeys.txt names, as implicit inputs,
\* the public key, the private key, the container certificate and the
\* container private key of every enabled apex bundle it has a record for.
C12_KeyFilesAreImplicitInputs ==
    KeysWritten
        => \A n \in EnabledBundles :
              {ctx.modules[n].public_key_file, ctx.modules[n].private_key_file,
               ctx.modules[n].container_certificate_file,
               ctx.modules[n].container_private_key_file}
                  \subseteq Range(outputs.implicits)

\* C14: apexkeys.txt holds one record per enabled apex bundle and no other
\* record, each record is the one of its bundle, and the records stand in
\* the lexical order of the bundle names.
C14_RecordsInLexicalOrder ==
    KeysWritten
        => /\ Range(RecordNames(outputs.args)) = EnabledBundles
           /\ \A i, j \in DOMAIN RecordNames(outputs.args) :
                 i < j => NameLess(RecordNames(outputs.args)[i],
                                   RecordNames(outputs.args)[j])
           /\ \A i \in DOMAIN RecordNames(outputs.args) :
                 Append(Records(outputs.args)[i], "\\n")
                     = ApexKeysRecord(ctx, ctx.modules[RecordNames(outputs.args)[i]])

\* apexkeys.txt is written for at least two enabled apex bundles, a disabled
\* apex bundle and a module of another kind
C14_Witness ==
    /\ KeysWritten
    /\ Cardinality(EnabledBundles) >= 2
    /\ \E n \in DOMAIN ctx.modules : ctx.modules[n].type = "apex" /\ ~ctx.modules[n].enabled
    /\ KeyModuleName \in DOMAIN ctx.modules
    /\ Len(Records(outputs.args)) >= 2

\* C15: when a module is removed or disabled and apexkeys.txt is written
\* again, the new content is the old content without the record of that
\* module: every other record is unchanged and stays in its place.
C15_OnlyThatRecordDeleted ==
    (KeysWritten /\ call.how # "none")
        => Records(outputs.args)
               = SelectSeq(Records(call.old), LAMBDA rec : NameOfRecord(rec) # call.module)

\* an apex bundle with a record between two others is disabled and
\* apexkeys.txt is written again
C15_Witness ==
    /\ KeysWritten
    /\ call.how = "disabled"
    /\ Len(Records(call.old)) = 3
    /\ NameOfRecord(Records(call.old)[2]) = call.module
    /\ Len(Records(outputs.args)) = 2

-----------------------------------------------------------------------------
(* A build description as a state machine: the dependency mutator runs on  *)
(* every android_app, then every module is assembled once all the modules  *)
(* it depends on are, then the apex_keys_text singleton runs; the same     *)
(* description is then evaluated a second time                             *)

App == <<"app">>
Sib == <<"sib">>
C1 == <<"c1">>
C2 == <<"c2">>
LibA == <<"liba">>
LibB == <<"libb">>
LibN == <<"libn">>
Lib1 == <<"lib1">>
Lib2 == <<"lib2">>
BundleA == <<"a">>
BundleB == <<"b">>

Apps == {App, Sib}
Certificates == {C1, C2}
Bundles == {BundleA, BundleB}

\* the modules the model assembles; the cc libraries, the android libraries
\* and the apex bundles are assembled by code outside the model
Assembled == Apps \cup Certificates

\* ctx.MultiTargets() of an android_app
Targets == <<"arm64", "arm">>

ModuleType(name) ==
    IF name \in Apps THEN "android_app"
    ELSE IF name \in Certificates THEN "android_app_certificate"
    ELSE IF name \in {LibA, LibB, LibN} THEN "cc"
    ELSE "android_library"

\* cc.Module.OutputFile of the shared variant of a library for an
\* architecture; libn has no output file
CcOutputFile(name, arch) ==
    IF name = LibN THEN Absent
    ELSE OptionalPathForPath(MkPath("ModuleOutPath",
             name \o <<Slash, arch, Slash>> \o name \o <<Dot, "so">>, Empty))

\* AndroidLibraryDependency.ExportedProguardFlagFiles of lib1 and lib2
ExportedProguardFlagFiles(name) ==
    IF name = Lib1
    THEN <<MkPath("SourcePath", <<"f1">>, Empty), MkPath("SourcePath", <<"f2">>, Empty)>>
    ELSE <<MkPath("SourcePath", <<"f2">>, Empty), MkPath("SourcePath", <<"f3">>, Empty)>>

\* the certificate files of the module directory d
CertificateFiles ==
    {<<"d", Slash>> \o n \o e : n \in Certificates, e \in {X509Pem, Pk8}}

\* the ModuleContext of module m under the product configuration
ModuleCtx(m, product) ==
    [InstallCtx(m, [f \in InstallFlags |-> FALSE], DeviceOs, FALSE, NoOverrides)
        EXCEPT !.fs = CertificateFiles, !.product = product, !.multiTargets = Targets]

\* AndroidAppCertificate.GenerateAndroidBuildActions.  cert is the
\* certificate property.
AndroidAppCertificateGenerateAndroidBuildActions(c, cert) ==
    Let(PathForModuleSrc(c, <<cert \o X509Pem>>, "ok"), LAMBDA pem :
    Let(PathForModuleSrc(c, <<cert \o Pk8>>, "ok"), LAMBDA key :
        [certificate |-> Certificate(pem.ret, key.ret),
         rep |-> MergeReports(pem.rep, key.rep)]))

\* ctx.VisitDirectDeps: the modules at the other end of the edges, in the
\* order in which the edges were added, each with what it has published
VisitDirectDeps(edges, modules) ==
    [i \in 1..Len(edges) |->
        [name |-> edges[i].name, tag |-> edges[i].tag, target |-> edges[i].target,
         type |-> ModuleType(edges[i].name),
         output |-> IF ModuleType(edges[i].name) = "cc"
                    THEN CcOutputFile(edges[i].name, edges[i].arch) ELSE Absent,
         certificate |-> IF edges[i].name \in Certificates
                         THEN modules[edges[i].name].certificate
                         ELSE Certificate(NoPath, NoPath),
         proguard |-> IF ModuleType(edges[i].name) = "android_library"
                      THEN ExportedProguardFlagFiles(edges[i].name) ELSE << >>]]

\* a module is assembled as soon as it is enabled
ReadyAtOnce(m, edges, done) == TRUE

\* a module is assembled only after the modules it depends on
Ready(m, edges, done) ==
    \A i \in 1..Len(edges) : edges[i].name \in Assembled => edges[i].name \in done

\* the properties of the sibling app
SibProps ==
    [AppProps(FALSE, << >>) EXCEPT !.certificate = <<Colon>> \o C1,
                                   !.jniLibs = <<LibB>>,
                                   !.staticLibs = <<Lib1, Lib2>>]

\* the jni_libs, certificate and additional_certificates of the app
JniLibLists == { << >>, <<LibA>>, <<LibA, LibB>>, <<LibA, Lib1>>, <<LibN>> }
CertificateProps == { Empty, <<Colon>> \o C1, <<"plain">>, <<Colon>> \o LibA }
AdditionalCertificateProps == { << >>, << <<Colon>> \o C2, <<Colon>> \o C1 >>, << <<"bad">> >> }

\* PRODUCT_CERTIFICATE_OVERRIDES: none, or app is signed with c2
CertificateOverrides == { NoOverrides, [n \in {App} |-> C2] }

\* what a module has published before it is assembled
NoResult == [app |-> NoApp, certificate |-> Certificate(NoPath, NoPath)]

NothingAssembled ==
    [modules |-> [m \in Assembled |-> NoResult], apexkeys |-> NoStatement]

ModulesIdle ==
    [op |-> "idle", module |-> Empty, round |-> 1, mutated |-> {}, done |-> {},
     edges |-> [m \in Apps |-> << >>], singletons |-> FALSE,
     order |-> << >>, previous |-> NothingAssembled, previousOrder |-> << >>]

NoReports == [m \in Assembled |-> NoReport]

InitModules ==
    /\ ctx \in {[kind |-> "singleton", config |-> DefaultConfig, fs |-> CertificateFiles,
                 product |-> [DefaultProduct EXCEPT !.certificateOverrides = ov],
                 props |-> [m \in Apps |->
                               IF m = Sib THEN SibProps
                               ELSE [AppProps(FALSE, << >>) EXCEPT
                                        !.jniLibs = jni, !.certificate = cert,
                                        !.additionalCertificates = more,
                                        !.installable = inst,
                                        !.useEmbeddedNativeLibs = embed]]] :
                  ov \in CertificateOverrides, jni \in JniLibLists,
                  cert \in CertificateProps, more \in AdditionalCertificateProps,
                  inst \in BOOLEAN, embed \in BOOLEAN}
    /\ rep = NoReports
    /\ call = ModulesIdle
    /\ outputs = NothingAssembled

\* the dependency mutator runs on an android_app
DoDepsMutator ==
    \E m \in Apps \ call.mutated :
        \E v \in {DepsMutator(ModuleCtx(m, ctx.product), NoReport, ctx.props[m])} :
            /\ call' = [call EXCEPT !.op = "DepsMutator", !.module = m,
                                    !.mutated = @ \cup {m}, !.edges[m] = v.edges]
            /\ rep' = [rep EXCEPT ![m] = v.rep]
            /\ UNCHANGED <<ctx, outputs>>

\* a module whose dependency mutator has reported an error goes no further
Stopped(m) == m \in Apps /\ Failed(rep[m])

\* an android_app is assembled
DoGenerateApp ==
    /\ call.mutated = Apps
    /\ \E m \in Apps \ call.done :
          /\ ~Stopped(m)
          /\ Ready(m, call.edges[m], call.done)
          /\ \E v \in {generateAndroidBuildActions(ModuleCtx(m, ctx.product),
                          [ctx.props[m] EXCEPT
                              !.deps = VisitDirectDeps(call.edges[m], outputs.modules)])} :
                /\ outputs' = [outputs EXCEPT !.modules[m].app = v.app]
                /\ rep' = [rep EXCEPT ![m] = v.rep]
          /\ call' = [call EXCEPT !.op = "GenerateAndroidBuildActions", !.module = m,
                                  !.done = @ \cup {m}]
    /\ UNCHANGED ctx

\* an android_app_certificate is assembled
DoGenerateCertificate ==
    /\ call.mutated = Apps
    /\ \E m \in Certificates \ call.done :
          /\ \E v \in {AndroidAppCertificateGenerateAndroidBuildActions(
                          ModuleCtx(m, ctx.product), m)} :
                /\ outputs' = [outputs EXCEPT !.modules[m].certificate = v.certificate]
                /\ rep' = [rep EXCEPT ![m] = v.rep]
          /\ call' = [call EXCEPT !.op = "GenerateAndroidBuildActions", !.module = m,
                                  !.done = @ \cup {m}, !.order = Append(@, m)]
    /\ UNCHANGED ctx

\* every module that goes that far is assembled
AllAssembled == \A m \in Assembled : m \in call.done \/ Stopped(m)

\* the apex_keys_text singleton runs after the modules
DoSingletons ==
    /\ call.mutated = Apps
    /\ AllAssembled
    /\ ~call.singletons
    /\ \E v \in {apexKeysTextGenerateBuildActions(ctx,
                    VisitAllModules([n \in Bundles |-> ApexBundle(n, TRUE)]))} :
          outputs' = [outputs EXCEPT !.apexkeys = v.statement]
    /\ call' = [call EXCEPT !.op = "GenerateBuildActions", !.module = Empty,
                            !.singletons = TRUE]
    /\ UNCHANGED <<ctx, rep>>

\* the build description is evaluated once more
DoEvaluateAgain ==
    /\ call.singletons
    /\ call.round = 1
    /\ call' = [ModulesIdle EXCEPT !.round = 2, !.previous = outputs,
                                   !.previousOrder = call.order]
    /\ rep' = NoReports
    /\ outputs' = NothingAssembled
    /\ UNCHANGED ctx

NextModules ==
    \/ DoDepsMutator
    \/ DoGenerateApp
    \/ DoGenerateCertificate
    \/ DoSingletons
    \/ DoEvaluateAgain

SpecModules == InitModules /\ [][NextModules]_vars

\* C11 (the android_app half): an android_app declared with installable
\* false registers no install mapping.
C11_NotInstallableNotInstalled ==
    \A m \in Apps \cap call.done :
        ctx.props[m].installable = FALSE => outputs.modules[m].app.installed = << >>

\* the jni edges of an app, in the order in which they were added
JniEdges(m) == SelectSeq(call.edges[m], LAMBDA e : e.tag = "jni")

\* the jni edges that end at a cc library with an output file
ResolvedJniEdges(m) ==
    SelectSeq(JniEdges(m),
              LAMBDA e : ModuleType(e.name) = "cc" /\ CcOutputFile(e.name, e.arch).valid)

\* C18: after the dependency mutator there is, for every target and every
\* jni_libs name, exactly one jni edge, a far edge to the shared variant for
\* that target that carries the target; and once the app is assembled its
\* jni libraries are, edge by edge, the (name, output path, target) of the
\* resolved jni edges.
C18_OneJniLibPerTargetAndName ==
    \A m \in call.mutated :
        /\ Len(JniEdges(m)) = Len(Targets) * Len(ctx.props[m].jniLibs)
        /\ \A t \in Range(Targets), n \in Range(ctx.props[m].jniLibs) :
              Cardinality({i \in DOMAIN JniEdges(m) :
                              /\ JniEdges(m)[i].name = n
                              /\ JniEdges(m)[i].far
                              /\ JniEdges(m)[i].arch = t
                              /\ JniEdges(m)[i].link = "shared"
                              /\ JniEdges(m)[i].target = t}) = 1
        /\ m \in call.done
              => outputs.modules[m].app.jniLibs
                     = [i \in DOMAIN ResolvedJniEdges(m) |->
                           [name |-> ResolvedJniEdges(m)[i].name,
                            path |-> CcOutputFile(ResolvedJniEdges(m)[i].name,
                                                  ResolvedJniEdges(m)[i].arch).path,
                            target |-> ResolvedJniEdges(m)[i].target]]

\* the app with two jni_libs is assembled for two targets and has four jni
\* libraries
C18_Witness ==
    /\ App \in call.done
    /\ ctx.props[App].jniLibs = <<LibA, LibB>>
    /\ Len(JniEdges(App)) = 4
    /\ Len(outputs.modules[App].app.jniLibs) = 4
    /\ outputs.modules[App].app.jniLibs[1].target # outputs.modules[App].app.jniLibs[4].target

\* the module the certificate property or the certificate override of an
\* app names, the empty string if neither names one
NamedCertificate(m) ==
    IF m \in DOMAIN ctx.product.certificateOverrides THEN ctx.product.certificateOverrides[m]
    ELSE IF ctx.props[m].certificate # Empty /\ ctx.props[m].certificate[1] = Colon
    THEN Tail(ctx.props[m].certificate)
    ELSE Empty

\* the two files of a certificate as the executor reads them
CertificateStrings(cert) ==
    <<String(ctx.config, cert.pem), String(ctx.config, cert.key)>>

\* the files <name>.x509.pem and <name>.pk8 of a directory
PairIn(dir, name) ==
    <<JoinSep(<<dir, name \o X509Pem>>), JoinSep(<<dir, name \o Pk8>>)>>

\* the certificate edges of an app, in the order in which they were added
CertificateEdges(m) == SelectSeq(call.edges[m], LAMBDA e : e.tag = "certificate")

\* the app has been assembled to the end
Packaged(m) == m \in Apps \cap call.done /\ ~Failed(rep[m])

\* C19: the certificates of an assembled app are its own certificate
\* followed by one certificate per additional_certificates entry, in
\* declaration order.  Its own certificate is the pair of the module at its
\* first certificate edge when the property or an override names a module,
\* else the pair of that name in the default certificate directory, else the
\* default certificate of the product.  Every certificate edge ends at an
\* android_app_certificate.
C19_OwnCertificateFirst ==
    \A m \in Apps :
        Packaged(m)
            => /\ Len(outputs.modules[m].app.certificates)
                      = 1 + Len(ctx.props[m].additionalCertificates)
               /\ \A i \in DOMAIN CertificateEdges(m) :
                      ModuleType(CertificateEdges(m)[i].name) = "android_app_certificate"
               /\ CertificateStrings(outputs.modules[m].app.certificates[1])
                      = IF NamedCertificate(m) # Empty
                        THEN PairIn(<<"d">>, CertificateEdges(m)[1].name)
                        ELSE IF ctx.props[m].certificate # Empty
                        THEN PairIn(ctx.product.defaultAppCertificateDir,
                                    ctx.props[m].certificate)
                        ELSE PairIn(ctx.product.defaultAppCertificateDir, <<"testkey">>)
               /\ NamedCertificate(m) # Empty
                      => CertificateEdges(m)[1].name = NamedCertificate(m)
               /\ \A i \in DOMAIN ctx.props[m].additionalCertificates :
                      CertificateStrings(outputs.modules[m].app.certificates[i + 1])
                          = PairIn(<<"d">>, Tail(ctx.props[m].additionalCertificates[i]))

\* an app whose certificate is named by an override and that has two
\* additional certificates is assembled
C19_Witness ==
    /\ Packaged(App)
    /\ App \in DOMAIN ctx.product.certificateOverrides
    /\ Len(ctx.props[App].additionalCertificates) = 2
    /\ Len(outputs.modules[App].app.certificates) = 3
    /\ CertificateStrings(outputs.modules[App].app.certificates[1])
           # CertificateStrings(outputs.modules[App].app.certificates[3])

\* an error of the resolution of the dependencies of an app
DependencyError(e) ==
    e.what \in {"must be a cc library", "missing output file",
                "must be an android_app_certificate module"}

\* C20: an app with a jni_libs dependency that is no cc library or has no
\* output file, or with a certificate dependency that is no
\* android_app_certificate, has no build statement and no install mapping.
C20_FailedModuleEmitsNothing ==
    \A m \in Apps \cap call.done :
        (\E i \in DOMAIN rep[m].errs : DependencyError(rep[m].errs[i]))
            => /\ outputs.modules[m].app.actions = << >>
               /\ outputs.modules[m].app.installed = << >>

\* C20 (the siblings): the sibling of an app whose dependencies do not
\* resolve is assembled to the end.
SiblingUnaffected ==
    Sib \in call.done
        => /\ ~Failed(rep[Sib])
           /\ Len(outputs.modules[Sib].app.actions) = 4
           /\ Len(outputs.modules[Sib].app.installed) = 1

-----------------------------------------------------------------------------
(* The boot image as a state machine: a list of boot jars is configured    *)
(* and the dex_bootjars singleton emits the statement that builds the      *)
(* boot image of an architecture                                           *)

\* the modules that can be configured as boot jars
BootJarPool == { <<"foo">>, <<"bar">>, <<"baz">>, <<"qux">> }

\* the lists of one to MaxBootJars different boot jars
BootJarLists ==
    {l \in SeqsUpTo(BootJarPool, MaxBootJars) :
        Len(l) >= 1 /\ \A i, j \in DOMAIN l : i # j => l[i] # l[j]}

BootArchs == {"arm64", "arm"}

\* the name of the image of boot jar i that calls every image boot-<module>
bootImageNameAlwaysModule(bootJars, i) == <<"boot", "-">> \o bootJars[i]

\* the name of the image of boot jar i: boot for the first one
bootImageName(bootJars, i) ==
    IF i = 1 THEN <<"boot">> ELSE <<"boot", "-">> \o bootJars[i]

\* a file of the device below the build directory
DeviceOut(c, elems) ==
    MkPath("OutputPath", Join(<<c.config.deviceName>> \o elems), Empty)

\* the files of the image of boot jar i for an architecture: .art, .oat,
\* .vdex and the unstripped .oat
bootImageFiles(c, arch, bootJars, i) ==
    [e \in 1..3 |->
        DeviceOut(c, <<<<"dex_bootjars">>, <<"system">>, <<"framework">>, <<arch>>,
                       bootImageName(bootJars, i)
                           \o <<Dot, <<"art", "oat", "vdex">>[e]>> >>)]
    \o <<DeviceOut(c, <<<<"dex_bootjars_unstripped">>, <<"system">>, <<"framework">>,
                        <<arch>>, bootImageName(bootJars, i) \o <<Dot, "oat">> >>)>>

RECURSIVE bootImageOutputs(_, _, _, _)
bootImageOutputs(c, arch, bootJars, i) ==
    IF i > Len(bootJars) THEN << >>
    ELSE bootImageFiles(c, arch, bootJars, i) \o bootImageOutputs(c, arch, bootJars, i + 1)

\* the dex_bootjars singleton: the statement that builds the boot image of
\* an architecture from the copies of the boot jars
buildBootImage(c, arch, bootJars) ==
    [rule |-> "dex2oat",
     output |-> DeviceOut(c, <<<<"dex_bootjars">>, <<"system">>, <<"framework">>, <<arch>>,
                               <<"boot", Dot, "art">> >>),
     outputs |-> <<DeviceOut(c, <<<<"dex_bootjars">>, <<"system">>, <<"framework">>,
                                 <<arch>>, <<"boot", Dot, "invocation">> >>)>>
                    \o bootImageOutputs(c, arch, bootJars, 1),
     inputs |-> << >>,
     implicits |-> [i \in 1..Len(bootJars) |->
                       DeviceOut(c, <<<<"dex_bootjars_input">>,
                                      bootJars[i] \o <<Dot, "jar">> >>)],
     args |-> Empty]

\* TestDexpreoptBootJars: the configuration of the test and what it expects
TestDevice == <<"test_device">>
TestBootJars == << <<"foo">>, <<"bar">> >>
TestExpectedInputs ==
    {JoinSep(<<DefaultConfig.buildDir, TestDevice, <<"dex_bootjars_input">>, f>>) :
        f \in {<<"foo", Dot, "jar">>, <<"bar", Dot, "jar">>}}
TestExpectedOutputs ==
    {JoinSep(<<DefaultConfig.buildDir, TestDevice, <<"dex_bootjars">>, <<"system">>,
               <<"framework">>, <<"arm64">>, f>>) :
        f \in {<<"boot", Dot, "invocation">>, <<"boot", Dot, "art">>,
               <<"boot", "-", "bar", Dot, "art">>, <<"boot", Dot, "oat">>,
               <<"boot", "-", "bar", Dot, "oat">>, <<"boot", Dot, "vdex">>,
               <<"boot", "-", "bar", Dot, "vdex">>}}
    \cup {JoinSep(<<DefaultConfig.buildDir, TestDevice, <<"dex_bootjars_unstripped">>,
                    <<"system">>, <<"framework">>, <<"arm64">>, f>>) :
             f \in {<<"boot", Dot, "oat">>, <<"boot", "-", "bar", Dot, "oat">>}}

BootIdle == [op |-> "idle", arch |-> "arm64"]

InitBoot ==
    /\ ctx \in {[kind |-> "singleton",
                 config |-> [DefaultConfig EXCEPT !.deviceName = TestDevice],
                 fs |-> {}, bootJars |-> l] : l \in BootJarLists}
    /\ rep = NoReport
    /\ call = BootIdle
    /\ outputs = NoStatement

\* the dex_bootjars singleton runs for an architecture
DoDexBootJars ==
    /\ call.op = "idle"
    /\ \E arch \in BootArchs :
          /\ outputs' = buildBootImage(ctx, arch, ctx.bootJars)
          /\ call' = [op |-> "dex_bootjars", arch |-> arch]
    /\ UNCHANGED <<ctx, rep>>

NextBoot == DoDexBootJars

SpecBoot == InitBoot /\ [][NextBoot]_vars

\* the paths of a list as the executor reads them
PathStrings(paths) == [i \in DOMAIN paths |-> String(ctx.config, paths[i])]

\* the name the claim gives the image of a boot jar
ImageOf(m) == IF m = ctx.bootJars[1] THEN <<"boot">> ELSE <<"boot", "-">> \o m

\* the directory of the images, stripped or not, of the architecture
ImageDir(top) ==
    JoinSep(<<ctx.config.buildDir, ctx.config.deviceName, top, <<"system">>,
              <<"framework">>, <<call.arch>>>>)

\* C13: the implicit inputs of the statement that builds boot.art are one
\* dex_bootjars_input/<module>.jar per boot jar and nothing else; its
\* outputs are boot.invocation and, per boot jar, the .art, .oat and .vdex
\* files and the unstripped .oat file, named boot for the first boot jar and
\* boot-<module> for the others, and nothing else.  For the configuration of
\* TestDexpreoptBootJars they are the paths that test expects.
C13_BootImageInputsAndOutputs ==
    call.op = "dex_bootjars"
        => /\ Len(outputs.implicits) = Len(ctx.bootJars)
           /\ Range(PathStrings(outputs.implicits))
                  = {JoinSep(<<ctx.config.buildDir, ctx.config.deviceName,
                               <<"dex_bootjars_input">>, m \o <<Dot, "jar">>>>) :
                        m \in Range(ctx.bootJars)}
           /\ Len(outputs.outputs) = 1 + 4 * Len(ctx.bootJars)
           /\ Range(PathStrings(outputs.outputs))
                  = {JoinSep(<<ImageDir(<<"dex_bootjars">>), <<"boot", Dot, "invocation">>>>)}
                    \cup {JoinSep(<<ImageDir(<<"dex_bootjars">>), ImageOf(m) \o <<Dot, e>>>>) :
                             m \in Range(ctx.bootJars), e \in {"art", "oat", "vdex"}}
                    \cup {JoinSep(<<ImageDir(<<"dex_bootjars_unstripped">>),
                                    ImageOf(m) \o <<Dot, "oat">>>>) :
                             m \in Range(ctx.bootJars)}
           /\ Cardinality(Range(PathStrings(outputs.outputs))) = Len(outputs.outputs)
           /\ String(ctx.config, outputs.output) \in Range(PathStrings(outputs.outputs))
           /\ (ctx.bootJars = TestBootJars /\ call.arch = "arm64")
                  => /\ Range(PathStrings(outputs.implicits)) = TestExpectedInputs
                     /\ Range(PathStrings(outputs.outputs)) = TestExpectedOutputs

\* the boot image of the test configuration, foo and bar for arm64, is built
C13_Witness ==
    /\ call.op = "dex_bootjars"
    /\ call.arch = "arm64"
    /\ ctx.bootJars = TestBootJars
    /\ Len(outputs.implicits) = 2
    /\ Len(outputs.outputs) = 9

-----------------------------------------------------------------------------
(* The run of the executor as a state machine: the build statements have   *)
(* been written to the combined ninja file, runNinja puts the command line *)
(* together and the executor loads the file                                *)

Space == " "

\* strings.Fields: the words of s from symbol i on, cur being the word read
\* so far
RECURSIVE FieldsFrom(_, _, _, _)
FieldsFrom(s, i, cur, out) ==
    IF i > Len(s) THEN IF cur = Empty THEN out ELSE Append(out, cur)
    ELSE IF s[i] = Space
    THEN FieldsFrom(s, i + 1, Empty, IF cur = Empty THEN out ELSE Append(out, cur))
    ELSE FieldsFrom(s, i + 1, Append(cur, s[i]), out)

Fields(s) == FieldsFrom(s, 1, Empty, << >>)

\* strconv.Itoa for the numbers of the model
Itoa(n) == <<"0", "1", "2", "3", "4">>[n + 1]

\* cmd.Environment.Get
EnvironmentGet(env, name) ==
    IF name \in DOMAIN env THEN [value |-> env[name], ok |-> TRUE]
    ELSE [value |-> Empty, ok |-> FALSE]

\* the words of an environment variable that are added to the command line
ExtraArgs(env, name) ==
    IF EnvironmentGet(env, name).ok THEN Fields(EnvironmentGet(env, name).value) ELSE << >>

\* runNinja: the arguments of the executor
ninjaArgs(config, env) ==
    << <<"-d">>, <<"keepdepfile">>, <<"--frontend_file">>, <<"fifo">> >>
    \o config.ninjaArgs
    \o << <<"-j">>, <<Itoa(config.parallel)>> >>
    \o (IF config.keepGoing # 1 THEN << <<"-k">>, <<Itoa(config.keepGoing)>> >> ELSE << >>)
    \o << <<"-f">>, <<"combined", Dot, "ninja">> >>
    \o << <<"-w">>, <<"dupbuild=err">>, <<"-w">>, <<"missingdepfile=err">> >>
    \o ExtraArgs(env, "NINJA_ARGS")
    \o ExtraArgs(env, "NINJA_EXTRA_ARGS")

\* the executor reads its -w options from left to right: the last
\* dupbuild option decides, and without one a duplicate is a warning
RECURSIVE DupbuildIsError(_, _, _)
DupbuildIsError(args, i, err) ==
    IF i >= Len(args) THEN err
    ELSE IF args[i] = <<"-w">> /\ args[i + 1] = <<"dupbuild=err">>
    THEN DupbuildIsError(args, i + 2, TRUE)
    ELSE IF args[i] = <<"-w">> /\ args[i + 1] = <<"dupbuild=warn">>
    THEN DupbuildIsError(args, i + 2, FALSE)
    ELSE DupbuildIsError(args, i + 1, err)

\* cmd.RunAndPrintOrFatal: the executor loads the combined ninja file and
\* the build is fatal when it reports an error
RunAndPrintOrFatal(args, duplicateOutputs) ==
    IF duplicateOutputs /\ DupbuildIsError(args, 1, FALSE) THEN "fatal" ELSE "ran"

\* what the user can set: the configured arguments and the two variables
ConfiguredNinjaArgs ==
    { << >>, << <<"-w">>, <<"dupbuild=warn">> >>, << <<"-n">> >> }
NinjaArgsValues ==
    { <<"-w", Space, "dupbuild=warn">>, <<Space, "-v", Space, Space, "-w", Space, "dupbuild=err">> }
NinjaEnvironments ==
    {[n \in present |-> IF n = "NINJA_ARGS" THEN a ELSE b] :
        present \in SUBSET {"NINJA_ARGS", "NINJA_EXTRA_ARGS"},
        a \in NinjaArgsValues, b \in NinjaArgsValues}

NinjaIdle == [op |-> "idle", args |-> << >>, outcome |-> "none"]

InitNinja ==
    /\ ctx \in {[kind |-> "build",
                 config |-> [ninjaArgs |-> na, parallel |-> j, keepGoing |-> k],
                 env |-> env, duplicateOutputs |-> dup] :
                  na \in ConfiguredNinjaArgs, j \in {4}, k \in {0, 1},
                  env \in NinjaEnvironments, dup \in BOOLEAN}
    /\ rep = NoReport
    /\ call = NinjaIdle
    /\ outputs = NoStatement

\* runNinja
DoRunNinja ==
    /\ call.op = "idle"
    /\ \E args \in {ninjaArgs(ctx.config, ctx.env)} :
          call' = [op |-> "runNinja", args |-> args,
                   outcome |-> RunAndPrintOrFatal(args, ctx.duplicateOutputs)]
    /\ UNCHANGED <<ctx, rep, outputs>>

NextNinja == DoRunNinja

SpecNinja == InitNinja /\ [][NextNinja]_vars

\* C17: a combined ninja file in which two statements have the same output
\* is fatal to the run, whatever the configured ninja arguments, NINJA_ARGS
\* and NINJA_EXTRA_ARGS are.
C17_DuplicateOutputAlwaysFatal ==
    (call.op = "runNinja" /\ ctx.duplicateOutputs) => call.outcome = "fatal"

\* C17 (the configured arguments): what config.NinjaArgs() holds cannot make
\* a duplicate output a warning.
ConfiguredArgsCannotUnsetDupbuild ==
    (call.op = "runNinja" /\ ctx.duplicateOutputs /\ DOMAIN ctx.env = {})
        => call.outcome = "fatal"

-----------------------------------------------------------------------------
(* Source paths next to the build directory                                *)

\* C30: pathForSource returns no error for valid components whose location
\* is neither the build directory nor below it, also when the location is a
\* sibling of the build directory whose name begins with its name.
C30_SourceOutsideBuildDirAccepted ==
    (/\ call.op = "pathForSource"
     /\ validatePath(call.args).err = NoErr
     /\ ~Under(ctx.config.buildDir, Location(ctx.config.srcDir, call.args)))
        => call.err = NoErr

-----------------------------------------------------------------------------
(* The on-device path of an install path                                   *)

\* C28: for a device module and valid components, the on-device path of
\* PathForModuleInstall(ctx, c...) is "/" + partition + "/" + join(c) and no
\* error is reported, in every configuration, debug builds included.
C28_OnDevicePath ==
    call.op = "InstallPathToOnDevicePath"
        => /\ call.ret.path = <<Slash>> \o JoinSep(<<ExpectedPartition(ctx.flags)>> \o call.args)
           /\ ~Failed(rep)
           /\ ~rep.panicked

\* what holds of builds that are not debug builds
OnDevicePathWithoutDebug ==
    (call.op = "InstallPathToOnDevicePath" /\ ~ctx.debug)
        => /\ call.ret.path = <<Slash>> \o JoinSep(<<ExpectedPartition(ctx.flags)>> \o call.args)
           /\ ~Failed(rep)
           /\ ~rep.panicked

-----------------------------------------------------------------------------
(* The path the dexpreopter is told and the path the APK is installed at    *)

\* C29: the install path dexBuildActions hands to the dexpreopter is the path
\* at which the APK of the android_app is installed, for every module name,
\* framework-res included, privileged or not, overridden or not.
C29_DexpreoptPathIsInstallPath ==
    (call.op = "AndroidApp.GenerateAndroidBuildActions" /\ call.app.installed # << >>)
        => String(ctx.config, call.app.dexInstallPath) = InstalledFile

\* what holds of every android_app but an overridden framework-res
DexpreoptPathUnlessOverriddenFrameworkRes ==
    (/\ call.op = "AndroidApp.GenerateAndroidBuildActions"
     /\ call.app.installed # << >>
     /\ ~(ctx.moduleName = FrameworkRes /\ FrameworkRes \in DOMAIN ctx.packageNameOverrides))
        => String(ctx.config, call.app.dexInstallPath) = InstalledFile

-----------------------------------------------------------------------------
(* Re-rooting a path of a kind the helper does not support                 *)

\* the paths a module hands to GenPathWithExt, ObjPathWithExt and
\* ResPathWithName: a source file of the module, a generated source, and two
\* kinds no helper re-roots, the same file as a plain source path and an
\* output file of the module
HelperInputs(c, f) ==
    { PathForModuleSrc(c, <<f>>, "ok"), PathForModuleGen(c, NoReport, <<f>>),
      PathForSource(c, <<c.moduleDir, f>>, "ok"), PathForModuleOut(c, NoReport, <<f>>) }

HelperExts == { <<"h">>, <<"o">> }

\* the result of a helper is the result of the call; no output is recorded
Helped(op, args, recv, v) ==
    /\ call' = MkCall(op, args, "ok", recv, v.ret, NoErr)
    /\ rep' = v.rep
    /\ UNCHANGED <<ctx, outputs>>

HelpGenPathWithExt ==
    /\ call.op = "idle"
    /\ \E f \in OutSources, subdir \in OutSubdirs, ext \in HelperExts :
          \E p \in HelperInputs(ctx, f) :
              Helped("GenPathWithExt", <<subdir, ext>>, p.ret,
                     GenPathWithExt(ctx, p.rep, subdir, p.ret, ext))

HelpObjPathWithExt ==
    /\ call.op = "idle"
    /\ \E f \in OutSources, subdir \in OutSubdirs, ext \in HelperExts :
          \E p \in HelperInputs(ctx, f) :
              Helped("ObjPathWithExt", <<subdir, ext>>, p.ret,
                     ObjPathWithExt(ctx, p.rep, subdir, p.ret, ext))

HelpResPathWithName ==
    /\ call.op = "idle"
    /\ \E f \in OutSources, name \in OutComponents :
          \E p \in HelperInputs(ctx, f) :
              Helped("ResPathWithName", <<name>>, p.ret,
                     ResPathWithName(ctx, p.rep, p.ret, name))

NextHelpers ==
    \/ VisitModule
    \/ HelpGenPathWithExt
    \/ HelpObjPathWithExt
    \/ HelpResPathWithName

SpecHelpers == InitOutputs /\ [][NextHelpers]_vars

\* the last call handed a re-rooting helper a path of a kind it cannot re-root
UnsupportedKind ==
    \/ call.op \in {"GenPathWithExt", "ObjPathWithExt"}
          /\ call.recv.kind \notin {"ModuleSrcPath", "ModuleGenPath"}
    \/ call.op = "ResPathWithName" /\ call.recv.kind # "ModuleSrcPath"

\* the directory of the module of ctx below the build directory
ModuleOutDir ==
    Join(<<ctx.config.buildDir, Intermediates, ctx.moduleDir, ctx.moduleName, ctx.moduleSubDir>>)

\* the directory a helper roots its paths in
HelperRoot ==
    CASE call.op = "GenPathWithExt" -> Join(<<ModuleOutDir, Gen>>)
      [] call.op = "ObjPathWithExt" -> Join(<<ModuleOutDir, Obj>>)
      [] call.op = "ResPathWithName" -> Join(<<ModuleOutDir, Res>>)

\* C23 as stated: a re-rooting helper that is handed a path of an unsupported
\* kind reports an error and produces no path in its place.
C23_UnsupportedKindNoPath ==
    UnsupportedKind => (Failed(rep) /\ call.ret = NoPath)

\* C23 amended: a re-rooting helper that is handed a path of an unsupported
\* kind reports a module error and returns the module's gen, obj or res
\* directory itself, whatever the path, the sub-directory, the extension and
\* the name it was given.
C23_UnsupportedKindReportedWithPlaceholder ==
    UnsupportedKind =>
        /\ Failed(rep)
        /\ \E i \in 1..Len(rep.errs) :
              rep.errs[i] = [by |-> "ModuleErrorf", what |-> "unsupported"]
        /\ String(ctx.config, call.ret) = HelperRoot

\* GenPathWithExt is handed an output file of the module
C23_Witness ==
    /\ call.op = "GenPathWithExt"
    /\ call.recv.kind = "ModuleOutPath"
    /\ call.args = << <<"s">>, <<"h">> >>
    /\ Failed(rep)
    /\ call.ret.kind = "ModuleGenPath"
    /\ String(ctx.config, call.ret) = Join(<<ModuleOutDir, Gen>>)

-----------------------------------------------------------------------------
(* DirectorySortedPaths: paths sorted by their strings, and the entries of  *)
(* one directory found by binary search                                    *)

\* the most paths of a list handed to PathsToDirectorySortedPaths
MaxPaths == 4

\* the byte of a one-character symbol
Byte(ch) == CASE ch = "-" -> 45 [] ch = Dot -> 46 [] ch = Slash -> 47
              [] ch = "a" -> 97 [] ch = "b" -> 98 [] ch = "o" -> 111 [] OTHER -> 122

\* s < t for Go strings: byte by byte, a proper prefix first
RECURSIVE StringLess(_, _)
StringLess(s, t) ==
    IF t = Empty THEN FALSE
    ELSE IF s = Empty THEN TRUE
    ELSE IF s[1] # t[1] THEN Byte(s[1]) < Byte(t[1])
    ELSE StringLess(Tail(s), Tail(t))

\* sort.Slice with the order of the strings of the paths: p is put in its
\* place in a list that is sorted
RECURSIVE InsertSorted(_, _, _)
InsertSorted(config, sorted, p) ==
    IF sorted = << >> THEN <<p>>
    ELSE IF StringLess(String(config, p), String(config, Head(sorted)))
         THEN <<p>> \o sorted
         ELSE <<Head(sorted)>> \o InsertSorted(config, Tail(sorted), p)

\* PathsToDirectorySortedPaths
RECURSIVE PathsToDirectorySortedPaths(_, _)
PathsToDirectorySortedPaths(config, paths) ==
    IF paths = << >> THEN << >>
    ELSE InsertSorted(config, PathsToDirectorySortedPaths(config, Tail(paths)), Head(paths))

\* sort.Search(n, f): the binary search over the indices i..j-1 (from 0) of a
\* list; f is looked at in the middle only
RECURSIVE SearchFrom(_, _, _)
SearchFrom(i, j, f) ==
    IF i < j
    THEN Let((i + j) \div 2, LAMBDA h :
             IF ~f[h] THEN SearchFrom(h + 1, j, f) ELSE SearchFrom(i, h, f))
    ELSE i

Search(n, f) == SearchFrom(0, n, f)

\* DirectorySortedPaths.PathsInDirectory with a prefix that lacks the "/"
PathsInDirectoryNoSlash(config, p, dir) ==
    Let(Clean(dir), LAMBDA prefix :
    Let(Search(Len(p), [i \in 0..(Len(p) - 1) |-> StringLess(prefix, String(config, p[i + 1]))]),
        LAMBDA start :
    Let(SubSeq(p, start + 1, Len(p)), LAMBDA ret :
    Let(Search(Len(ret), [i \in 0..(Len(ret) - 1) |->
                             ~HasPrefix(String(config, ret[i + 1]), prefix)]), LAMBDA end :
        [start |-> start, end |-> end, ret |-> SubSeq(ret, 1, end)]))))

\* DirectorySortedPaths.PathsInDirectory; start and end are the two indices
\* the searches find
PathsInDirectory(config, p, dir) ==
    Let(Clean(dir) \o <<Slash>>, LAMBDA prefix :
    Let(Search(Len(p), [i \in 0..(Len(p) - 1) |-> StringLess(prefix, String(config, p[i + 1]))]),
        LAMBDA start :
    Let(SubSeq(p, start + 1, Len(p)), LAMBDA ret :
    Let(Search(Len(ret), [i \in 0..(Len(ret) - 1) |->
                             ~HasPrefix(String(config, ret[i + 1]), prefix)]), LAMBDA end :
        [start |-> start, end |-> end, ret |-> SubSeq(ret, 1, end)]))))

\* the files of a source tree with the directories a, a/a, a-, ab and b, and
\* a file a of another tree
DirPathPool ==
    { MkPath("OutputPath", <<"a">>, Empty),
      MkPath("SourcePath", <<"a", Slash, "b">>, Empty),
      MkPath("SourcePath", <<"a", Slash, "a", Slash, "b">>, Empty),
      MkPath("SourcePath", <<"a", "-", Slash, "b">>, Empty),
      MkPath("SourcePath", <<"a", "b", Slash, "b">>, Empty),
      MkPath("SourcePath", <<"b", Slash, "a">>, Empty) }

DirPathLists == SeqsUpTo(DirPathPool, MaxPaths)

\* the directories asked for
Dirs == { <<"a">>, <<"a", Slash>>, <<"a", Slash, "a">>, <<"a", "-">>, <<"o">>, <<Dot>> }

InitDirs ==
    /\ ctx = NoCtx
    /\ rep = NoReport
    /\ call = Idle
    /\ outputs = {}

\* a list of paths is sorted and the entries of a directory are asked for
DoPathsInDirectory ==
    /\ call.op = "idle"
    /\ \E paths \in DirPathLists, dir \in Dirs :
          \E sorted \in {PathsToDirectorySortedPaths(ctx.config, paths)} :
              \E v \in {PathsInDirectory(ctx.config, sorted, dir)} :
                  call' = [op |-> "PathsInDirectory", args |-> paths, dir |-> dir,
                           sorted |-> sorted, start |-> v.start, end |-> v.end,
                           ret |-> v.ret]
    /\ UNCHANGED <<ctx, rep, outputs>>

NextDirs == DoPathsInDirectory

SpecDirs == InitDirs /\ [][NextDirs]_vars

\* the strings of the sorted list do not descend, and the sorted list holds
\* the paths of the list, each as often as the list does
IsSortedListOf(sorted, paths) ==
    /\ \A i \in 1..(Len(sorted) - 1) :
          ~StringLess(String(ctx.config, sorted[i + 1]), String(ctx.config, sorted[i]))
    /\ Len(sorted) = Len(paths)
    /\ \A p \in DirPathPool :
          Cardinality({i \in 1..Len(sorted) : sorted[i] = p})
              = Cardinality({i \in 1..Len(paths) : paths[i] = p})

\* the string of p starts with the cleaned dir followed by "/"
InDir(p) == HasPrefix(String(ctx.config, p), Clean(call.dir) \o <<Slash>>)

\* C24: PathsToDirectorySortedPaths(paths).PathsInDirectory(dir) is exactly
\* the entries whose string starts with the cleaned dir followed by "/", they
\* are one contiguous run of the sorted list, and none of them lies in a
\* sibling directory whose name only starts with the name of dir.
C24_PathsInDirectory ==
    call.op = "PathsInDirectory" =>
        /\ IsSortedListOf(call.sorted, call.args)
        /\ call.ret = SelectSeq(call.sorted, InDir)
        /\ call.ret = SubSeq(call.sorted, call.start + 1, call.start + call.end)
        /\ \A i \in 1..Len(call.ret) :
              /\ Under(call.dir, String(ctx.config, call.ret[i]))
              /\ Clean(String(ctx.config, call.ret[i])) # Clean(call.dir)

\* the files of a and a/a are found between those of a- and ab
C24_Witness ==
    /\ call.op = "PathsInDirectory"
    /\ call.dir = <<"a", Slash>>
    /\ call.args = << MkPath("SourcePath", <<"a", "b", Slash, "b">>, Empty),
                      MkPath("SourcePath", <<"a", Slash, "b">>, Empty),
                      MkPath("SourcePath", <<"a", "-", Slash, "b">>, Empty),
                      MkPath("SourcePath", <<"a", Slash, "a", Slash, "b">>, Empty) >>
    /\ call.start = 1
    /\ call.ret = << MkPath("SourcePath", <<"a", Slash, "a", Slash, "b">>, Empty),
                     MkPath("SourcePath", <<"a", Slash, "b">>, Empty) >>

-----------------------------------------------------------------------------
(* The heartbeat of runNinja: a ticker, the goroutine that checks the ninja *)
(* log at every tick, and the deferred ticker.Stop and close(done)         *)

\* the most checks of one run that are followed
MaxChecks == 3
\* the most modifications of the ninja log of one run
MaxModifications == 3

\* the zero time.Time
ZeroTime == 0

\* os.Stat of the ninja log
Stat(log) == IF log.exists THEN [err |-> NoErr, modTime |-> log.modTime]
             ELSE [err |-> "notExist", modTime |-> ZeroTime]

\* statusChecker.check: the diagnostics are dumped when the time read is the
\* time the check before has stored
check(prevTime, log) ==
    Let(Stat(log), LAMBDA info :
    Let(IF info.err = NoErr THEN info.modTime ELSE ZeroTime, LAMBDA newTime :
        [dumped |-> newTime = prevTime, prevTime |-> newTime]))

\* no check has run
NoCheck == [ran |-> FALSE, first |-> FALSE, modified |-> FALSE, found |-> FALSE,
            dumped |-> FALSE]

\* runNinja has started the command: the ticker runs, the goroutine waits in
\* its select, the checker is new.  The log is that of an earlier build, or
\* there is none yet.  modified and last are not state of the program: they
\* record whether the log was written since the last check, and whether the
\* last check was the first, found a log and dumped the diagnostics.
HeartbeatStart(log) ==
    [op |-> "runNinja", pc |-> "running", tick |-> 0, goroutine |-> "select",
     log |-> log, prevTime |-> ZeroTime, checks |-> 0, dumps |-> 0,
     modified |-> FALSE, last |-> NoCheck]

InitHeartbeat ==
    /\ ctx = NoCtx
    /\ rep = NoReport
    /\ call \in {HeartbeatStart(log) : log \in {[exists |-> FALSE, modTime |-> ZeroTime],
                                                [exists |-> TRUE, modTime |-> 1]}}
    /\ outputs = {}

\* the ticker sends on ticker.C, which holds one tick; a tick that finds the
\* channel full is dropped
Tick ==
    /\ call.pc \in {"running", "finished"}
    /\ call.tick = 0
    /\ call' = [call EXCEPT !.tick = 1]
    /\ UNCHANGED <<ctx, rep, outputs>>

\* ninja writes its log
LogModified ==
    /\ call.pc = "running"
    /\ call.log.modTime < 1 + MaxModifications
    /\ call' = [call EXCEPT !.log = [exists |-> TRUE, modTime |-> @.modTime + 1],
                            !.modified = TRUE]
    /\ UNCHANGED <<ctx, rep, outputs>>

\* the select of the goroutine receives from ticker.C and runs the check
Check ==
    /\ call.goroutine = "select"
    /\ call.tick = 1
    /\ call.checks < MaxChecks
    /\ \E v \in {check(call.prevTime, call.log)} :
          call' = [call EXCEPT !.tick = 0,
                               !.prevTime = v.prevTime,
                               !.checks = @ + 1,
                               !.dumps = IF v.dumped THEN @ + 1 ELSE @,
                               !.modified = FALSE,
                               !.last = [ran |-> TRUE, first |-> call.checks = 0,
                                         modified |-> call.modified,
                                         found |-> call.log.exists,
                                         dumped |-> v.dumped]]
    /\ UNCHANGED <<ctx, rep, outputs>>

\* RunAndPrintOrFatal is over
CmdFinishes ==
    /\ call.pc = "running"
    /\ call' = [call EXCEPT !.pc = "finished"]
    /\ UNCHANGED <<ctx, rep, outputs>>

\* the deferred ticker.Stop: no more ticks are sent; a tick that has been
\* sent stays in the channel
TickerStop ==
    /\ call.pc = "finished"
    /\ call' = [call EXCEPT !.pc = "stopped"]
    /\ UNCHANGED <<ctx, rep, outputs>>

\* the deferred close(done)
CloseDone ==
    /\ call.pc = "stopped"
    /\ call' = [call EXCEPT !.pc = "closed"]
    /\ UNCHANGED <<ctx, rep, outputs>>

\* runNinja returns
RunNinjaReturns ==
    /\ call.pc = "closed"
    /\ call' = [call EXCEPT !.pc = "returned"]
    /\ UNCHANGED <<ctx, rep, outputs>>

\* the select of the goroutine receives from the closed done and returns
GoroutineReturns ==
    /\ call.goroutine = "select"
    /\ call.pc \in {"closed", "returned"}
    /\ call' = [call EXCEPT !.goroutine = "returned"]
    /\ UNCHANGED <<ctx, rep, outputs>>

NextHeartbeat ==
    \/ Tick
    \/ LogModified
    \/ Check
    \/ CmdFinishes
    \/ TickerStop
    \/ CloseDone
    \/ RunNinjaReturns
    \/ GoroutineReturns

SpecHeartbeat == InitHeartbeat /\ [][NextHeartbeat]_vars

\* the goroutine is scheduled, and so is the function that runs the command
SpecHeartbeatFair ==
    /\ SpecHeartbeat
    /\ WF_vars(Check) /\ WF_vars(GoroutineReturns)
    /\ WF_vars(CmdFinishes) /\ WF_vars(TickerStop) /\ WF_vars(CloseDone)
    /\ WF_vars(RunNinjaReturns)

\* C25: a check dumps the diagnostics exactly when it is not the first check
\* of the run and the log has not been modified since the check before.
C25_DumpOnlyWhenUnmodified ==
    call.last.ran => (call.last.dumped <=> (~call.last.first /\ ~call.last.modified))

\* what holds of a check that finds a log: the claim of C25
DumpOnlyWhenUnmodifiedGivenLog ==
    (call.last.ran /\ call.last.found)
        => (call.last.dumped <=> (~call.last.first /\ ~call.last.modified))

\* C26, its first half: once runNinja has returned the goroutine starts no
\* check.
C26_NoCheckAfterReturn ==
    [][call.pc = "returned" => call'.checks = call.checks]_vars

\* C26, its second half: the goroutine returns in the end
GoroutineTerminates == <>(call.goroutine = "returned")

-----------------------------------------------------------------------------
(* The key files and the key name of an apex_key                            *)

\* the key name a file name stands for: the name without its extension
Stem(name) == SubSeq(name, 1, 1)

\* the apex key directory of the context of the last call
KeyDirOf(c) == IF c.apexKeyDir = Empty THEN c.moduleDir ELSE c.apexKeyDir

\* where the key file name is expected: in the apex key directory when the
\* file is there, in the directory of the module otherwise
ExpectedKeyFile(c, name) ==
    IF JoinSep(<<KeyDirOf(c), name>>) \in c.fs THEN JoinSep(<<KeyDirOf(c), name>>)
    ELSE JoinSep(<<c.moduleDir, name>>)

\* C27: an apex_key whose two key files have different key names reports a
\* module error, has no key name and installs nothing; otherwise its key name
\* is the common name and, when it is installable, the public key file is
\* installed as etc/security/apex/<key name>.  Each of the two key files is
\* the file of the configured apex key directory when it exists there and
\* the file of the module's directory otherwise, one independently of the
\* other.
C27_ApexKeyFilesAndName ==
    call.op = "apexKey" =>
        /\ String(call.c.config, call.key.public_key_file)
              = ExpectedKeyFile(call.c, call.props.public_key)
        /\ String(call.c.config, call.key.private_key_file)
              = ExpectedKeyFile(call.c, call.props.private_key)
        /\ Stem(call.props.public_key) # Stem(call.props.private_key)
              => /\ \E i \in 1..Len(rep.errs) :
                       rep.errs[i] = [by |-> "ModuleErrorf", what |-> "keyname"]
                 /\ call.key.keyName = Empty
                 /\ call.key.installed = << >>
        /\ Stem(call.props.public_key) = Stem(call.props.private_key)
              => /\ call.key.keyName = Stem(call.props.public_key)
                 /\ IF call.props.installable \in {"unset", "true"}
                    THEN /\ Len(call.key.installed) = 1
                         /\ String(call.c.config, call.key.installed[1])
                               = JoinSep(<<ExpectedInstallRoot(call.c),
                                           <<"etc", Slash, "security", Slash, "apex">>,
                                           call.key.keyName>>)
                         /\ call.key.installedFrom = <<call.key.public_key_file>>
                    ELSE call.key.installed = << >>

\* the public key is found in the configured directory, the private key only
\* in the directory of the module, and the key is installed
C27_Witness ==
    /\ call.op = "apexKey"
    /\ call.c.apexKeyDir = ConfiguredKeyDir
    /\ call.props.installable = "unset"
    /\ String(call.c.config, call.key.public_key_file)
          = <<"keys", Slash, "k">> \o Avbpubkey
    /\ String(call.c.config, call.key.private_key_file) = <<"d", Slash, "k">> \o Pem
    /\ call.key.keyName = <<"k">>
    /\ Len(call.key.installed) = 1
    /\ ~Failed(rep)

-----------------------------------------------------------------------------
(* Dexpreopt: which java modules get a dexpreopt action                     *)

JavaKinds == {"android_app", "android_test", "android_test_helper_app",
              "java_library", "java_binary", "java_test"}
AppKinds == {"android_app", "android_test", "android_test_helper_app"}

\* AndroidAppFactory: installable unless the module says otherwise
AndroidAppFactory == [type |-> "android_app", installable |-> "true", isTest |-> FALSE]

\* AndroidTestFactory that does not tell the dexpreopter of the test
AndroidTestFactoryNotTest == [type |-> "android_test", installable |-> "true", isTest |-> FALSE]

\* AndroidTestFactory
AndroidTestFactory == [type |-> "android_test", installable |-> "true", isTest |-> TRUE]

\* AndroidTestHelperAppFactory
AndroidTestHelperAppFactory ==
    [type |-> "android_test_helper_app", installable |-> "true", isTest |-> TRUE]

\* LibraryFactory, BinaryFactory, TestFactory of the java package: a library
\* is installable when it says so, a binary and a test unless they say
\* otherwise, and a test is a test
LibraryFactory == [type |-> "java_library", installable |-> "unset", isTest |-> FALSE]
BinaryFactory == [type |-> "java_binary", installable |-> "true", isTest |-> FALSE]
TestFactory == [type |-> "java_test", installable |-> "true", isTest |-> TRUE]

Factory(kind) ==
    CASE kind = "android_app" -> AndroidAppFactory
      [] kind = "android_test" -> AndroidTestFactory
      [] kind = "android_test_helper_app" -> AndroidTestHelperAppFactory
      [] kind = "java_library" -> LibraryFactory
      [] kind = "java_binary" -> BinaryFactory
      [] kind = "java_test" -> TestFactory

\* the properties of the build description are written over those of the
\* factory; a property that is not named keeps the value of the factory
LoadProperties(module, bp) ==
    [type |-> module.type, isTest |-> module.isTest,
     installable |-> IF bp.installable # "unset" THEN bp.installable ELSE module.installable,
     srcs |-> bp.srcs, compile_dex |-> bp.compile_dex]

\* proptools.Bool: a property that is not set is false
Bool(p) == p = "true"

\* the module of the dexpreopt tests
DexCtx == InstallCtx(<<"foo">>, [f \in InstallFlags |-> FALSE], DeviceOs, FALSE, NoOverrides)

\* the dexpreopter of an assembled module: that of an app is filled in by
\* dexBuildActions, that of a library, binary or test of the java package by
\* its own assembly
Dexpreopter(m) ==
    [isTest |-> m.isTest,
     isInstallable |->
         IF m.type \in AppKinds
         THEN dexBuildActions(DexCtx, NoReport,
                              [AppProps(FALSE, << >>) EXCEPT !.installable = Bool(m.installable)],
                              OverridePackageNameFor(DexCtx, DexCtx.moduleName)).isInstallable
         ELSE Bool(m.installable)]

\* dexpreopter.dexpreoptDisabled: none for a test, none for a module that is
\* not installed
dexpreoptDisabled(d) == d.isTest \/ ~d.isInstallable

\* Module.compile: the sources are compiled if there are any, the jar is
\* dexed when the module is installable or asks for a dex jar, and the dex
\* jar is dexpreopted unless dexpreopt is disabled
compile(c, m, d) ==
    Let(PathForModuleOut(c, NoReport, << <<"dex">>, c.moduleName \o <<Dot, "jar">> >>).ret,
        LAMBDA dexJar :
    Let(PathForModuleOut(c, NoReport, << <<"dexpreopt">>, c.moduleName \o <<Dot, "jar">> >>).ret,
        LAMBDA preopted :
        (IF m.srcs # << >> THEN <<Build("javac", dexJar, m.srcs)>> ELSE << >>)
        \o (IF Bool(m.installable) \/ m.compile_dex
            THEN <<Build("d8", dexJar, << >>)>>
                 \o (IF ~dexpreoptDisabled(d) THEN <<Build("dexpreopt", preopted, <<dexJar>>)>>
                     ELSE << >>)
            ELSE << >>)))

\* what a build description says of a module
JavaSources == { << >>, << <<"a", Dot, "java">> >>, << <<"a", Dot, "java">>, <<"b", Dot, "java">> >> }
BlueprintProps ==
    [installable : {"unset", "true", "false"}, srcs : JavaSources, compile_dex : BOOLEAN]

DexIdle == [op |-> "idle", kind |-> "none",
            bp |-> [installable |-> "unset", srcs |-> << >>, compile_dex |-> FALSE],
            module |-> LoadProperties(LibraryFactory,
                                      [installable |-> "unset", srcs |-> << >>,
                                       compile_dex |-> FALSE]),
            actions |-> << >>]

InitDexpreopt ==
    /\ ctx = DexCtx
    /\ rep = NoReport
    /\ call = DexIdle
    /\ outputs = {}

\* a module is declared: its factory makes it, and the properties of the
\* build description are loaded into it
DoDeclare ==
    /\ call.op = "idle"
    /\ \E kind \in JavaKinds, bp \in BlueprintProps :
          call' = [DexIdle EXCEPT !.op = "declared", !.kind = kind, !.bp = bp,
                                  !.module = LoadProperties(Factory(kind), bp)]
    /\ UNCHANGED <<ctx, rep, outputs>>

\* the declared module is assembled
DoCompile ==
    /\ call.op = "declared"
    /\ call' = [call EXCEPT !.op = "compiled",
                            !.actions = compile(ctx, call.module, Dexpreopter(call.module))]
    /\ UNCHANGED <<ctx, rep, outputs>>

NextDexpreopt == DoDeclare \/ DoCompile

SpecDexpreopt == InitDexpreopt /\ [][NextDexpreopt]_vars

\* the assembled module has a dexpreopt action
DexpreoptEnabled == \E i \in 1..Len(call.actions) : call.actions[i].rule = "dexpreopt"

\* the rows of TestDexpreoptEnabled
ASource == << <<"a", Dot, "java">> >>
TestDexpreoptEnabled ==
    { [kind |-> "android_app", installable |-> "unset", srcs |-> ASource,
       compile_dex |-> FALSE, enabled |-> TRUE],
      [kind |-> "java_library", installable |-> "true", srcs |-> ASource,
       compile_dex |-> FALSE, enabled |-> TRUE],
      [kind |-> "java_binary", installable |-> "unset", srcs |-> ASource,
       compile_dex |-> FALSE, enabled |-> TRUE],
      [kind |-> "android_app", installable |-> "unset", srcs |-> << >>,
       compile_dex |-> FALSE, enabled |-> TRUE],
      [kind |-> "java_library", installable |-> "true", srcs |-> << >>,
       compile_dex |-> FALSE, enabled |-> TRUE],
      [kind |-> "java_library", installable |-> "unset", srcs |-> ASource,
       compile_dex |-> FALSE, enabled |-> FALSE],
      [kind |-> "java_test", installable |-> "unset", srcs |-> ASource,
       compile_dex |-> FALSE, enabled |-> FALSE],
      [kind |-> "android_test", installable |-> "unset", srcs |-> ASource,
       compile_dex |-> FALSE, enabled |-> FALSE],
      [kind |-> "android_test_helper_app", installable |-> "unset", srcs |-> ASource,
       compile_dex |-> FALSE, enabled |-> FALSE],
      [kind |-> "java_library", installable |-> "unset", srcs |-> ASource,
       compile_dex |-> TRUE, enabled |-> FALSE] }

\* the build description makes the module of the kind installable
DeclaredInstallable ==
    IF call.kind = "java_library" THEN call.bp.installable = "true"
    ELSE call.bp.installable # "false"

-----------------------------------------------------------------------------
(* What an android_app reads of the modules it depends on                   *)

\* what an android_app_certificate that has not been assembled publishes
UnsetCertificate == Certificate(NoPath, NoPath)

\* the app m is assembled by the step
AssembledByStep(m) == m \in call'.done /\ m \notin call.done

=============================================================================
